---- MODULE Spec2Model ----
(***************************************************************************)
(* Model of the timeseries library (package timeseries): the data model,   *)
(* the statistical primitives, the four cleaning operations of outliers.go *)
(* and Regularize.                                                         *)
(*                                                                         *)
(* Numbers.  A float64 is modelled exactly: a measurement is either the    *)
(* not-a-number marker or a rational n/d in lowest terms; a bound handed   *)
(* to RemoveOutbounds is a + c*sqrt(r) with a, c, r rational, which is the *)
(* shape mean +/- lvl*stddev takes.  Comparisons follow IEEE-754: every    *)
(* ordered comparison with not-a-number is false.                          *)
(*                                                                         *)
(* Time.  A time.Time is the number of milliseconds since the zero time,   *)
(* a time.Duration a number of milliseconds.                               *)
(***************************************************************************)
EXTENDS Integers, Sequences, FiniteSets, TLC

VARIABLES
    ts,       \* the receiver *TimeSeries the operations are called on
    tsout,    \* first series returned by the last call (cleaned / regularized)
    tsrej,    \* second series returned by the last call (rejected)
    op,       \* the last call: its name and its arguments
    pre,      \* the receiver as it was when the last call was made
    outcome,  \* how the last call ended: "none", "returned", "panic", "fatal",
              \* "hang"
    slice,    \* the []float64 the caller hands to the statistical primitives
    res,      \* value and error returned by the last statistical primitive
    walk,     \* the cursors of a Regularize call that is walking its windows
    heap,     \* the backing arrays of the []DataUnit slices the caller holds
    refs      \* the slice header (array, len) of each series the caller holds

vars == <<ts, tsout, tsrej, op, pre, outcome, slice, res, walk, heap, refs>>

----------------------------------------------------------------------------
(* Bounds of the model *)

MaxLen == 3        \* longest receiver series of Spec
MaxChron == 1      \* timestamps of Spec are 0..MaxChron steps of ChronStep
MaxMeas == 1       \* numeric measurements are 0..MaxMeas
MaxLvl == 2        \* z-score levels are 0..MaxLvl

ChronStep == 500   \* milliseconds between two timestamps of the model
MaxLenP == 4       \* longest receiver series of SpecPeirce
MaxLenR == 3       \* longest receiver series of SpecReg
MaxTick == 6       \* timestamps of SpecReg are 0..MaxTick steps of ChronStep
MaxFreq == 2       \* SpecReg calls Regularize with freq in -1..MaxFreq
MaxLenS == 4       \* longest slice handed to a statistical primitive
MaxVal == 2        \* numeric values of such a slice are 0..MaxVal
MaxIdx == 3        \* most positions handed to RemoveElements in one call
MaxLenT == 3       \* longest receiver series of SpecSeries
MaxNbre == 4       \* ComputeBasicStats is called while NbreOfNaN <= MaxNbre
MaxLenW == 2       \* longest receiver series of SpecWalk
MaxArr == 6        \* backing arrays alive at a time
MaxLenH == 3       \* longest series the caller builds by appends
MaxLenB == 1       \* longest second series of Merge

----------------------------------------------------------------------------
(* float64 *)

RECURSIVE GCD(_, _)
GCD(a, b) == IF b = 0 THEN a ELSE GCD(b, a % b)

Abs(x) == IF x < 0 THEN -x ELSE x

NaN == [nan |-> TRUE, n |-> 0, d |-> 1]

\* the rational n/d, d # 0, in lowest terms with a positive denominator
Rat(n, d) ==
    LET g == GCD(Abs(n), Abs(d))
        s == IF d < 0 THEN -1 ELSE 1
    IN  [nan |-> FALSE, n |-> s * (n \div g), d |-> s * (d \div g)]

F(v) == [nan |-> FALSE, n |-> v, d |-> 1]

IsNaN(x) == x.nan

FAdd(x, y) == IF x.nan \/ y.nan THEN NaN ELSE Rat(x.n * y.d + y.n * x.d, x.d * y.d)
FSub(x, y) == IF x.nan \/ y.nan THEN NaN ELSE Rat(x.n * y.d - y.n * x.d, x.d * y.d)
FMul(x, y) == IF x.nan \/ y.nan THEN NaN ELSE Rat(x.n * y.n, x.d * y.d)
\* x / y; the model divides by non-zero lengths only
FDiv(x, y) == IF x.nan \/ y.nan THEN NaN ELSE Rat(x.n * y.d, x.d * y.n)
FAbs(x) == IF x.nan THEN NaN ELSE [x EXCEPT !.n = Abs(x.n)]

\* a/b < c/d for a, c >= 0 and b, d > 0, by continued fractions (no products)
RECURSIVE PosLess(_, _, _, _)
PosLess(a, b, c, d) ==
    LET qa == a \div b
        qc == c \div d
        ra == a % b
        rc == c % d
    IN  IF qa # qc THEN qa < qc
        ELSE IF rc = 0 THEN FALSE
        ELSE IF ra = 0 THEN TRUE
        ELSE PosLess(d, rc, b, ra)

\* x < y on float64: false as soon as one side is not-a-number
FLess(x, y) ==
    /\ ~x.nan
    /\ ~y.nan
    /\ IF x.n < 0 /\ y.n >= 0 THEN TRUE
       ELSE IF x.n >= 0 /\ y.n < 0 THEN FALSE
       ELSE IF x.n >= 0 THEN PosLess(x.n, x.d, y.n, y.d)
       ELSE PosLess(-y.n, y.d, -x.n, x.d)

FGreater(x, y) == FLess(y, x)
FLeq(x, y) == ~x.nan /\ ~y.nan /\ ~FLess(y, x)

Sign(x) == IF x.n > 0 THEN 1 ELSE IF x.n < 0 THEN -1 ELSE 0

\* The float64 a + c*sqrt(r), r >= 0: the value of mean +/- lvl*stddev.
Surd(a, c, r) ==
    IF a.nan \/ c.nan \/ r.nan THEN [nan |-> TRUE, a |-> F(0), c |-> F(0), r |-> F(0)]
    ELSE IF c.n = 0 \/ r.n = 0 THEN [nan |-> FALSE, a |-> a, c |-> F(0), r |-> F(0)]
    ELSE [nan |-> FALSE, a |-> a, c |-> c, r |-> r]

\* a measurement seen as a bound
AsBound(x) == Surd(x, F(0), F(0))

\* x > b for a measurement x and a bound b = a + c*sqrt(r)
GreaterThanBound(x, b) ==
    /\ ~x.nan
    /\ ~b.nan
    /\ LET u == FSub(x, b.a)                       \* x - a  >  c*sqrt(r) ?
           uu == FMul(u, u)
           ccr == FMul(FMul(b.c, b.c), b.r)
       IN  CASE Sign(b.c) = 0 -> Sign(u) > 0
             [] Sign(b.c) > 0 -> Sign(u) > 0 /\ FLess(ccr, uu)
             [] OTHER         -> Sign(u) >= 0 \/ FLess(uu, ccr)

\* x < b for a measurement x and a bound b = a + c*sqrt(r)
LessThanBound(x, b) ==
    /\ ~x.nan
    /\ ~b.nan
    /\ LET u == FSub(x, b.a)                       \* x - a  <  c*sqrt(r) ?
           uu == FMul(u, u)
           ccr == FMul(FMul(b.c, b.c), b.r)
       IN  CASE Sign(b.c) = 0 -> Sign(u) < 0
             [] Sign(b.c) > 0 -> Sign(u) <= 0 \/ FLess(uu, ccr)
             [] OTHER         -> Sign(u) < 0 /\ FLess(ccr, uu)

----------------------------------------------------------------------------
(* Data model *)

StOK == 0
StMissing == 1
StOutlier == 2
StInvalid == 3

StatusCode == {StOK, StMissing, StOutlier, StInvalid}

DataUnit(chr, meas, status) ==
    [Chron |-> chr, Meas |-> meas, Dchron |-> 0, Dmeas |-> F(0), Status |-> status]

\* the zero value of BasicStats
BasicStats ==
    [Len |-> 0, Chmin |-> 0, ValAtChmin |-> F(0), Chmax |-> 0, ValAtChmax |-> F(0),
     Msmin |-> F(0), Msmax |-> F(0), Msmean |-> F(0), Msmed |-> F(0), Msstd |-> F(0),
     NbreOfNaN |-> 0]

\* the zero value of TimeSeries
TimeSeries ==
    [Name |-> <<>>, Comment |-> "", DataSeries |-> <<>>, BasicStats |-> BasicStats]

\* an append that overwrites the last record instead of growing the slice
AddDataUnitOverLast(s, du) ==
    [s EXCEPT !.DataSeries = IF @ = <<>> THEN <<du>> ELSE [@ EXCEPT ![Len(@)] = du]]

AddDataUnit(s, du) == [s EXCEPT !.DataSeries = Append(@, du)]

RECURSIVE AddDataUnits(_, _)
AddDataUnits(s, dus) ==
    IF dus = <<>> THEN s ELSE AddDataUnits(AddDataUnit(s, Head(dus)), Tail(dus))

MeasToArr(s) == [i \in 1..Len(s.DataSeries) |-> s.DataSeries[i].Meas]
ChronToArr(s) == [i \in 1..Len(s.DataSeries) |-> s.DataSeries[i].Chron]

----------------------------------------------------------------------------
(* sort.Slice: not stable, so every arrangement in which no neighbour is   *)
(* out of order is a possible result.                                      *)

\* the longest series any specification below sorts
MaxOf(a, b) == IF a >= b THEN a ELSE b

MaxSortLen ==
    MaxOf(MaxOf(MaxOf(MaxLenP, MaxLenS), MaxOf(MaxLen, MaxLenR)),
          MaxOf(MaxLenT, MaxLenH + MaxLenB))

InsertAt(p, k, n) ==
    [i \in 1..n |-> IF i < k THEN p[i] ELSE IF i = k THEN n ELSE p[i - 1]]

RECURSIVE PermsOf(_)
PermsOf(n) ==
    IF n = 0 THEN {<<>>}
    ELSE UNION {{InsertAt(p, k, n) : k \in 1..n} : p \in PermsOf(n - 1)}

Perms == [n \in 0..MaxSortLen |-> PermsOf(n)]

Arrangements(s) == {[i \in 1..Len(s) |-> s[p[i]]] : p \in Perms[Len(s)]}

ChronBefore(a, b) == a.Chron < b.Chron
ChronAfter(a, b) == a.Chron > b.Chron
MeasLess(a, b) == FLess(a.Meas, b.Meas)
MeasGreater(a, b) == FLess(b.Meas, a.Meas)

\* a sort with the comparison of SortChronDesc
ChronDescending(ds) ==
    {q \in Arrangements(ds) : \A i \in 1..(Len(q) - 1) : ~ChronAfter(q[i + 1], q[i])}

SortChronAsc(ds) ==
    {q \in Arrangements(ds) : \A i \in 1..(Len(q) - 1) : ~ChronBefore(q[i + 1], q[i])}

SortMeasAsc(ds) ==
    {q \in Arrangements(ds) : \A i \in 1..(Len(q) - 1) : ~MeasLess(q[i + 1], q[i])}

SortMeasDesc(ds) ==
    {q \in Arrangements(ds) : \A i \in 1..(Len(q) - 1) : ~MeasGreater(q[i + 1], q[i])}

SortChronDesc(ds) ==
    {q \in Arrangements(ds) : \A i \in 1..(Len(q) - 1) : ~ChronAfter(q[i + 1], q[i])}

SortFloat64s(x) ==
    CHOOSE q \in Arrangements(x) :
        \A i \in 1..(Len(q) - 1) :
            \/ q[i].nan
            \/ (~q[i + 1].nan /\ ~FLess(q[i + 1], q[i]))

----------------------------------------------------------------------------
(* Statistical primitives (stats.go).  Each returns a value and an error.  *)

ErrNil == "nil"
ErrEmptyInput == "ErrEmptyInput"
ErrBounds == "ErrBounds"
ErrEmptySlice == "empty slice"

RECURSIVE SumLoop(_, _)
SumLoop(input, acc) ==
    IF input = <<>> THEN acc ELSE SumLoop(Tail(input), FAdd(acc, Head(input)))

Sum(input) ==
    IF Len(input) = 0 THEN [val |-> NaN, err |-> ErrEmptyInput]
    ELSE [val |-> SumLoop(input, F(0)), err |-> ErrNil]

Mean(input) ==
    IF Len(input) = 0 THEN [val |-> NaN, err |-> ErrEmptyInput]
    ELSE [val |-> FDiv(Sum(input).val, F(Len(input))), err |-> ErrNil]

RECURSIVE SqDiffSum(_, _, _)
SqDiffSum(data, mean, acc) ==
    IF data = <<>> THEN acc
    ELSE LET diff == FSub(Head(data), mean)
         IN  SqDiffSum(Tail(data), mean, FAdd(acc, FMul(diff, diff)))

\* StdDev returns math.Sqrt(sqDiffSum / n): val is the radicand, the square
\* of the value returned.
StdDevDivisor(n) == n

StdDev(data) ==
    LET n == Len(data)
        mean == FDiv(SumLoop(data, F(0)), F(n))
    IN  IF n = 0 THEN [val |-> NaN, err |-> ErrEmptySlice]
        ELSE [val |-> FDiv(SqDiffSum(data, mean, F(0)), F(StdDevDivisor(n))), err |-> ErrNil]

CeilingRank(p, n) == (p * n + 99) \div 100

\* int(math.Floor(p / 100 * float64(n))) for p a whole number of percent
PercentileRank(p, n) == (p * n) \div 100

\* p is a whole number of percent; the slice handed in is copied, not sorted
Percentile(input, p) ==
    LET n == Len(input)
        cp == SortFloat64s(input)
        k == PercentileRank(p, n)
    IN  IF n = 0 THEN [val |-> NaN, err |-> ErrEmptyInput]
        ELSE IF p <= 0 \/ p > 100 THEN [val |-> NaN, err |-> ErrBounds]
        ELSE IF k < 1 THEN [val |-> cp[1], err |-> ErrNil]
        ELSE IF k >= n THEN [val |-> cp[n], err |-> ErrNil]
        ELSE [val |-> cp[k], err |-> ErrNil]

\* the slice as it was handed in
LeftAsPassed(input) == input

\* sort.Float64s(input) at the head of Median: the caller's slice is sorted
SortedInPlace(input) == SortFloat64s(input)

\* input is the caller's slice after the call
Median(input0) ==
    LET input == SortedInPlace(input0)
        l == Len(input)
    IN  IF l = 0 THEN [val |-> NaN, err |-> ErrEmptyInput, input |-> input]
        ELSE IF l % 2 = 0
             THEN [val |-> Mean(SubSeq(input, l \div 2, l \div 2 + 1)).val,
                   err |-> ErrNil, input |-> input]
             ELSE [val |-> input[l \div 2 + 1], err |-> ErrNil, input |-> input]

RECURSIVE MinLoop(_, _, _)
MinLoop(input, i, min) ==
    IF i > Len(input) THEN min
    ELSE MinLoop(input, i + 1, IF FLess(input[i], min) THEN input[i] ELSE min)

Min(input) ==
    IF Len(input) = 0 THEN [val |-> NaN, err |-> ErrEmptyInput]
    ELSE [val |-> MinLoop(input, 2, input[1]), err |-> ErrNil]

RECURSIVE MaxLoop(_, _, _)
MaxLoop(input, i, max) ==
    IF i > Len(input) THEN max
    ELSE MaxLoop(input, i + 1, IF FGreater(input[i], max) THEN input[i] ELSE max)

Max(input) ==
    IF Len(input) = 0 THEN [val |-> NaN, err |-> ErrEmptyInput]
    ELSE [val |-> MaxLoop(input, 2, input[1]), err |-> ErrNil]

----------------------------------------------------------------------------
(* Cleaning operations (outliers.go) *)

\* the test of RemoveOutbounds' loop: the record goes to the rejected series
OutOfBounds(meas, min, max) == GreaterThanBound(meas, max) \/ LessThanBound(meas, min)

KeptStatus(du) == StOK
RejectedStatus(du) == StOutlier

\* the loop of RemoveOutbounds over the value-sorted records
RECURSIVE BoundLoop(_, _, _, _, _)
BoundLoop(ds, min, max, out, rej) ==
    IF ds = <<>> THEN [out |-> out, rej |-> rej]
    ELSE LET dataunit == Head(ds)
         IN  IF OutOfBounds(dataunit.Meas, min, max)
             THEN BoundLoop(Tail(ds), min, max, out,
                            AddDataUnit(rej, [dataunit EXCEPT !.Status = RejectedStatus(dataunit)]))
             ELSE BoundLoop(Tail(ds), min, max,
                            AddDataUnit(out, [dataunit EXCEPT !.Status = KeptStatus(dataunit)]), rej)

\* a RemoveOutbounds that forgets the closing tsin.SortChronAsc()
LeftInValueOrder(byMeas) == {byMeas}

\* a RemoveOutbounds whose loop writes the status through to the receiver
StampedThrough(byMeas) ==
    SortChronAsc([i \in DOMAIN byMeas |-> [byMeas[i] EXCEPT !.Status = StOK]])

\* what the receiver holds when RemoveOutbounds returns, given its records
\* in value order
RestoreReceiver(byMeas) == SortChronAsc(byMeas)

\* every result RemoveOutbounds can return: the receiver afterwards and the
\* two new series
RemoveOutbounds(tsin, min, max) ==
    UNION {
        {[tsin |-> [tsin EXCEPT !.DataSeries = restored],
          tsout |-> [split.out EXCEPT !.DataSeries = o,
                                      !.Name = tsin.Name \o <<" Cleaned">>],
          tsrej |-> [split.rej EXCEPT !.DataSeries = r,
                                      !.Name = tsin.Name \o <<" Removed">>]] :
             restored \in RestoreReceiver(split.byMeas),
             o \in SortChronAsc(split.out.DataSeries),
             r \in SortChronAsc(split.rej.DataSeries)}
        : split \in {[byMeas |-> byMeas] @@ BoundLoop(byMeas, min, max, TimeSeries, TimeSeries)
                     : byMeas \in SortMeasAsc(tsin.DataSeries)}}

PercentileFences(dt, perc) ==
    [min |-> AsBound(Percentile(dt, perc).val), max |-> AsBound(Percentile(dt, 100 - perc).val)]

PercCleaning(tsin, perc) ==
    UNION {
        UNION {RemoveOutbounds(sorted, fence.min, fence.max)
               : fence \in {PercentileFences(MeasToArr(sorted), perc)}}
        : sorted \in {[tsin EXCEPT !.DataSeries = byMeas] : byMeas \in SortMeasAsc(tsin.DataSeries)}}

ZscoreLow(dtmean, dtvar, lvl) == Surd(dtmean, F(-lvl), dtvar)
ZscoreHigh(dtmean, dtvar, lvl) == Surd(dtmean, F(lvl), dtvar)

ZscoreFences(dt, lvl) ==
    [min |-> ZscoreLow(Mean(dt).val, StdDev(dt).val, lvl),
     max |-> ZscoreHigh(Mean(dt).val, StdDev(dt).val, lvl)]

ZscoreCleaning(tsin, lvl) ==
    UNION {
        UNION {RemoveOutbounds(sorted, fence.min, fence.max)
               : fence \in {ZscoreFences(MeasToArr(sorted), lvl)}}
        : sorted \in {[tsin EXCEPT !.DataSeries = byMeas] : byMeas \in SortMeasAsc(tsin.DataSeries)}}

----------------------------------------------------------------------------
(* Peirce's criterion (outliers.go) *)

\* Rtable[0..57][0..8] of func Rtable, in thousandths; row r is RtableRows[r + 1]
RtableRows ==
   <<
      <<1196, 0, 0, 0, 0, 0, 0, 0, 0>>,
      <<1383, 1078, 0, 0, 0, 0, 0, 0, 0>>,
      <<1509, 1200, 0, 0, 0, 0, 0, 0, 0>>,
      <<1610, 1299, 1099, 0, 0, 0, 0, 0, 0>>,
      <<1693, 1382, 1187, 1022, 0, 0, 0, 0, 0>>,
      <<1763, 1453, 1261, 1109, 0, 0, 0, 0, 0>>,
      <<1824, 1515, 1324, 1178, 1045, 0, 0, 0, 0>>,
      <<1878, 1570, 1380, 1237, 1114, 0, 0, 0, 0>>,
      <<1925, 1619, 1430, 1289, 1172, 1059, 0, 0, 0>>,
      <<1969, 1663, 1475, 1336, 1221, 1118, 1009, 0, 0>>,
      <<2007, 1704, 1516, 1379, 1266, 1167, 1070, 0, 0>>,
      <<2043, 1741, 1554, 1417, 1307, 1210, 1120, 1026, 0>>,
      <<2076, 1775, 1589, 1453, 1344, 1249, 1164, 1078, 0>>,
      <<2106, 1807, 1622, 1486, 1378, 1285, 1202, 1122, 1039>>,
      <<2134, 1836, 1652, 1517, 1409, 1318, 1237, 1161, 1084>>,
      <<2161, 1864, 1680, 1546, 1438, 1348, 1268, 1195, 1123>>,
      <<2185, 1890, 1707, 1573, 1466, 1377, 1298, 1226, 1158>>,
      <<2209, 1914, 1732, 1599, 1492, 1404, 1326, 1255, 1190>>,
      <<2230, 1938, 1756, 1623, 1517, 1429, 1352, 1282, 1218>>,
      <<2251, 1960, 1779, 1646, 1540, 1452, 1376, 1308, 1245>>,
      <<2271, 1981, 1800, 1668, 1563, 1475, 1399, 1332, 1270>>,
      <<2290, 2000, 1821, 1689, 1584, 1497, 1421, 1354, 1293>>,
      <<2307, 2019, 1840, 1709, 1604, 1517, 1442, 1375, 1315>>,
      <<2324, 2037, 1859, 1728, 1624, 1537, 1462, 1396, 1336>>,
      <<2341, 2055, 1877, 1746, 1642, 1556, 1481, 1415, 1356>>,
      <<2356, 2071, 1894, 1764, 1660, 1574, 1500, 1434, 1375>>,
      <<2371, 2088, 1911, 1781, 1677, 1591, 1517, 1452, 1393>>,
      <<2385, 2103, 1927, 1797, 1694, 1608, 1534, 1469, 1411>>,
      <<2399, 2118, 1942, 1812, 1710, 1624, 1550, 1486, 1428>>,
      <<2412, 2132, 1957, 1828, 1725, 1640, 1567, 1502, 1444>>,
      <<2425, 2146, 1971, 1842, 1740, 1655, 1582, 1517, 1459>>,
      <<2438, 2159, 1985, 1856, 1754, 1669, 1597, 1532, 1475>>,
      <<2450, 2172, 1998, 1870, 1768, 1683, 1611, 1547, 1489>>,
      <<2461, 2184, 2011, 1883, 1782, 1697, 1624, 1561, 1504>>,
      <<2472, 2196, 2024, 1896, 1795, 1711, 1638, 1574, 1517>>,
      <<2483, 2208, 2036, 1909, 1807, 1723, 1651, 1587, 1531>>,
      <<2494, 2219, 2047, 1921, 1820, 1736, 1664, 1600, 1544>>,
      <<2504, 2230, 2059, 1932, 1832, 1748, 1676, 1613, 1556>>,
      <<2514, 2241, 2070, 1944, 1843, 1760, 1688, 1625, 1568>>,
      <<2524, 2251, 2081, 1955, 1855, 1771, 1699, 1636, 1580>>,
      <<2533, 2261, 2092, 1966, 1866, 1783, 1711, 1648, 1592>>,
      <<2542, 2271, 2102, 1976, 1876, 1794, 1722, 1659, 1603>>,
      <<2551, 2281, 2112, 1987, 1887, 1804, 1733, 1670, 1614>>,
      <<2560, 2290, 2122, 1997, 1897, 1815, 1743, 1681, 1625>>,
      <<2568, 2299, 2131, 2006, 1907, 1825, 1754, 1691, 1636>>,
      <<2577, 2308, 2140, 2016, 1917, 1835, 1764, 1701, 1646>>,
      <<2585, 2317, 2149, 2026, 1927, 1844, 1773, 1711, 1656>>,
      <<2592, 2326, 2158, 2035, 1936, 1854, 1783, 1721, 1666>>,
      <<2600, 2334, 2167, 2044, 1945, 1863, 1792, 1730, 1675>>,
      <<2608, 2342, 2175, 2052, 1954, 1872, 1802, 1740, 1685>>,
      <<2615, 2350, 2184, 2061, 1963, 1881, 1811, 1749, 1694>>,
      <<2622, 2358, 2192, 2069, 1972, 1890, 1820, 1758, 1703>>,
      <<2629, 2365, 2200, 2077, 1980, 1898, 1828, 1767, 1711>>,
      <<2636, 2373, 2207, 2085, 1988, 1907, 1837, 1775, 1720>>,
      <<2643, 2380, 2215, 2093, 1996, 1915, 1845, 1784, 1729>>,
      <<2650, 2387, 2223, 2109, 2012, 1931, 1861, 1800, 1745>>,
      <<2656, 2394, 2237, 2116, 2019, 1939, 1869, 1808, 1753>>,
      <<2663, 2401, 223, 2101, 2004, 1923, 1853, 1792, 1737>>
   >>

RtableRowCount == 58
RtableColCount == 9

\* an index expression of Rtable or of a slice that is out of range panics
InTable(sampleLength, suspects) ==
    /\ sampleLength >= 0 /\ sampleLength < RtableRowCount
    /\ suspects >= 0 /\ suspects < RtableColCount

Rtable(sampleLength, suspects) == Rat(RtableRows[sampleLength + 1][suspects + 1], 1000)

NinTable(N) == IF N > 60 THEN 57 ELSE N - 3

\* observedeviation before it is sorted: initialplace is 0-based
Deviations(data, avg) ==
    [k \in 1..Len(data) |-> [initialplace |-> k - 1, value |-> FAbs(FSub(data[k], avg))]]

\* the comparison of a ranking by ascending deviation
DevSmaller(a, b) == FLess(a.value, b.value)

DevGreater(a, b) == FLess(b.value, a.value)

SortDeviations(obs) ==
    {q \in Arrangements(obs) : \A i \in 1..(Len(q) - 1) : ~DevGreater(q[i + 1], q[i])}

\* observedeviation[i].value > s*Rtable(NinTable, i), s the square root of var
ExceedsThreshold(dev, var, r) == GreaterThanBound(dev, Surd(F(0), r, var))

\* the rejection loop; i is 0-based
RECURSIVE PeirceLoop(_, _, _, _, _)
PeirceLoop(obs, var, row, i, toremove) ==
    IF i >= Len(obs) THEN [panic |-> TRUE, toremove |-> toremove]
    ELSE IF ~InTable(row, i) THEN [panic |-> TRUE, toremove |-> toremove]
    ELSE IF ExceedsThreshold(obs[i + 1].value, var, Rtable(row, i))
         THEN PeirceLoop(obs, var, row, i + 1, Append(toremove, obs[i + 1].initialplace))
         ELSE [panic |-> FALSE, toremove |-> toremove]

\* every result Peirce can return
Peirce(data) ==
    LET avg == Mean(data).val
        s == StdDev(data).val
        N == Len(data)
    IN  {PeirceLoop(obs, s, NinTable(N), 0, <<>>) : obs \in SortDeviations(Deviations(data, avg))}

PeirceRejectedUnit(du) == du

\* the loops of PeirceOutlierRemoval; k is 0-based
RECURSIVE PeirceInner(_, _, _, _)
PeirceInner(du, k, torem, acc) ==
    IF torem = <<>> THEN acc
    ELSE IF k = Head(torem)
         THEN PeirceInner(du, k, Tail(torem),
                          [flagg |-> FALSE, tsrej |-> AddDataUnit(acc.tsrej, PeirceRejectedUnit(du))])
         ELSE PeirceInner(du, k, Tail(torem), acc)

RECURSIVE PeirceOuter(_, _, _, _, _)
PeirceOuter(ds, k, torem, out, rej) ==
    IF k >= Len(ds) THEN [tsout |-> out, tsrej |-> rej]
    ELSE LET r == PeirceInner(ds[k + 1], k, torem, [flagg |-> TRUE, tsrej |-> rej])
         IN  IF r.flagg
             THEN PeirceOuter(ds, k + 1, torem, AddDataUnit(out, ds[k + 1]), r.tsrej)
             ELSE PeirceOuter(ds, k + 1, torem, out, r.tsrej)

\* every result PeirceOutlierRemoval can return
PeirceOutlierRemoval(tsin) ==
    {IF p.panic THEN [panic |-> TRUE, tsout |-> TimeSeries, tsrej |-> TimeSeries]
     ELSE LET r == PeirceOuter(tsin.DataSeries, 0, p.toremove, TimeSeries, TimeSeries)
          IN  [panic |-> FALSE, tsout |-> r.tsout, tsrej |-> r.tsrej]
     : p \in Peirce(MeasToArr(tsin))}

----------------------------------------------------------------------------
(* RemoveElements (outliers.go): positions are counted from 0 *)

InRangeFromOne(i, n) == i >= 1 /\ i <= n

InRange(i, n) == i >= 0 /\ i < n

\* the set of positions to reject
RejectIdx(idx, n) == {idx[k] : k \in {j \in DOMAIN idx : InRange(idx[j], n)}}

RECURSIVE RemoveLoop(_, _, _, _, _)
RemoveLoop(ds, i, rejectIdx, cleanedts, rejectedts) ==
    IF i >= Len(ds) THEN [tsout |-> cleanedts, tsrej |-> rejectedts]
    ELSE IF i \in rejectIdx
         THEN RemoveLoop(ds, i + 1, rejectIdx, cleanedts, AddDataUnit(rejectedts, ds[i + 1]))
         ELSE RemoveLoop(ds, i + 1, rejectIdx, AddDataUnit(cleanedts, ds[i + 1]), rejectedts)

RemoveElements(tsin, idx) ==
    IF Len(tsin.DataSeries) = 0 \/ Len(idx) = 0
    THEN [tsout |-> AddDataUnits(TimeSeries, tsin.DataSeries), tsrej |-> TimeSeries]
    ELSE RemoveLoop(tsin.DataSeries, 0, RejectIdx(idx, Len(tsin.DataSeries)),
                    TimeSeries, TimeSeries)

----------------------------------------------------------------------------
(* Merge and RemovedNonValid (outliers.go) *)

\* a merge that puts the records in chronological order
MergeInOrder(tsa, tsb) ==
    [TimeSeries EXCEPT !.DataSeries =
        CHOOSE q \in SortChronAsc(tsa.DataSeries \o tsb.DataSeries) : TRUE]

Merge(tsa, tsb) == AddDataUnits(AddDataUnits(TimeSeries, tsa.DataSeries), tsb.DataSeries)

\* the test that sends a record to the cleaned series
AnyButInvalid(du) == du.Status # StInvalid

IsValid(du) == du.Status = StOK

RECURSIVE NonValidLoop(_, _, _)
NonValidLoop(ds, cleanedts, rejectedts) ==
    IF ds = <<>> THEN [tsout |-> cleanedts, tsrej |-> rejectedts]
    ELSE IF IsValid(Head(ds))
         THEN NonValidLoop(Tail(ds), AddDataUnit(cleanedts, Head(ds)), rejectedts)
         ELSE NonValidLoop(Tail(ds), cleanedts, AddDataUnit(rejectedts, Head(ds)))

RemovedNonValid(tsin) == NonValidLoop(tsin.DataSeries, TimeSeries, TimeSeries)

----------------------------------------------------------------------------
(* The free sorting functions: each returns a sorted copy of s *)

SortedCopies(s, arrangements) ==
    {[TimeSeries EXCEPT !.Name = s.Name, !.DataSeries = q] : q \in arrangements}

Renamed(sorted, name) == {[q EXCEPT !.Name = name] : q \in sorted}

\* SortMeasAsc(s, name) and SortMeasDesc(s, name), the functions of two
\* arguments; the methods of the same names are SortMeasAsc and SortMeasDesc
SortMeasAscNamed(s, name) == Renamed(SortedCopies(s, SortChronAsc(s.DataSeries)), name)

SortMeasDescNamed(s, name) == Renamed(SortedCopies(s, SortChronDesc(s.DataSeries)), name)

SortedMeasAsc(s) == SortedCopies(s, SortMeasAsc(s.DataSeries))

SortedMeasDesc(s) == SortedCopies(s, SortMeasDesc(s.DataSeries))

----------------------------------------------------------------------------
(* Sort_Deltas_Stats: the deltas and the summary statistics.  The fields   *)
(* of BasicStats that hold a time or a duration converted from a float64   *)
(* (Chmean, Chmed, DCh...) and the statistics of Dmeas are left out.       *)

WarningEmpty == "Warning: Empty Time Series"
CommentOk == " Time Series ok."

DeltasFiller(ds) ==
    [i \in DOMAIN ds |->
        IF i = 1 THEN [ds[i] EXCEPT !.Dchron = 0, !.Dmeas = F(0)]
        ELSE [ds[i] EXCEPT !.Dchron = ds[i].Chron - ds[i - 1].Chron,
                           !.Dmeas = FSub(ds[i].Meas, ds[i - 1].Meas)]]

\* the values of the field of ds that are numbers, in the order of ds
RECURSIVE NotNaN(_)
NotNaN(vec) ==
    IF vec = <<>> THEN <<>>
    ELSE (IF IsNaN(Head(vec)) THEN <<>> ELSE <<Head(vec)>>) \o NotNaN(Tail(vec))

\* ts.NbreOfNaN += 1 for every record whose value is not-a-number
CountNaN(old, ds) == old + Cardinality({i \in DOMAIN ds : IsNaN(ds[i].Meas)})

\* the measurements the statistics of Meas are computed from
MeasVec(ds) == NotNaN([i \in DOMAIN ds |-> ds[i].Meas])

ComputeBasicStats(tsin) ==
    LET ds == tsin.DataSeries
        vec == MeasVec(ds)
        dvec == NotNaN([i \in DOMAIN ds |-> ds[i].Dmeas])
    IN  IF Len(ds) > 0
        THEN [tsin EXCEPT
                !.BasicStats =
                    [Len |-> Len(ds),
                     Chmin |-> ds[1].Chron, ValAtChmin |-> ds[1].Meas,
                     Chmax |-> ds[Len(ds)].Chron, ValAtChmax |-> ds[Len(ds)].Meas,
                     Msmin |-> Min(vec).val, Msmax |-> Max(vec).val,
                     Msmean |-> Mean(vec).val, Msmed |-> Median(vec).val,
                     Msstd |-> StdDev(vec).val,
                     NbreOfNaN |-> CountNaN(tsin.BasicStats.NbreOfNaN, ds)],
                !.Comment = IF Len(dvec) > 1 THEN CommentOk ELSE @]
        ELSE [tsin EXCEPT !.Comment = WarningEmpty]

\* every receiver Sort_Deltas_Stats can leave
SortDeltasStats(tsin) ==
    IF Len(tsin.DataSeries) > 0
    THEN {ComputeBasicStats([tsin EXCEPT !.DataSeries = DeltasFiller(sorted)])
          : sorted \in SortChronAsc(tsin.DataSeries)}
    ELSE {[tsin EXCEPT !.Comment = WarningEmpty]}

\* Copy: the receiver is left alone, the copy is sorted and carries statistics
Copy(tsin) ==
    SortDeltasStats([TimeSeries EXCEPT !.Name = tsin.Name, !.Comment = tsin.Comment,
                                       !.DataSeries = tsin.DataSeries])

----------------------------------------------------------------------------
(* Regularize (fixed-grid resampling) *)

Millisecond == 1
Second == 1000
Minute == 60000
Hour == 3600000
Day == 86400000

\* the switch that normalises the period unit; "fatal" stands for log.Fatal
NormalizePer(per) ==
    CASE per \in {"Seconds", "sec", "s"} -> "s"
      [] per \in {"Minutes", "min", "m"} -> "m"
      [] per \in {"Hours", "h"} -> "h"
      [] OTHER -> "fatal"

\* time.Time.Truncate(d): t itself when d <= 0
Truncate(t, d) == IF d <= 0 THEN t ELSE t - (t % d)

RoundedStartTime(timetoround, afreqq, aper) ==
    CASE aper = "m" -> Truncate(timetoround, Minute * afreqq)
      [] aper = "s" -> Truncate(timetoround, Second * afreqq)
      [] aper = "h" -> Truncate(timetoround, Hour * afreqq)
      [] aper = "d" -> timetoround - afreqq * Day
      [] OTHER -> timetoround

AddDuration(start, freq, per) ==
    CASE per = "s" -> start + Second * freq
      [] per = "m" -> start + Minute * freq
      [] per = "h" -> start + Hour * freq
      [] OTHER -> start

AddDurationTol(start, freq, per, tolerance) ==
    CASE per = "s" -> start + Millisecond * (freq * 1000 + tolerance)
      [] per = "m" -> start + Second * (freq * 60 + tolerance)
      [] per = "h" -> start + Minute * (freq * 60 + tolerance)
      [] OTHER -> start

RECURSIVE BoundsLoop(_, _, _)
BoundsLoop(xs, min, max) ==
    IF xs = <<>> THEN [min |-> min, max |-> max]
    ELSE LET x == Head(xs)
         IN  BoundsLoop(Tail(xs),
                        IF FLess(x, min) THEN x ELSE min,
                        IF FGreater(x, max) THEN x ELSE max)

Bounds(xs) ==
    IF Len(xs) = 0 THEN [min |-> F(0), max |-> F(0)]
    ELSE BoundsLoop(xs, xs[1], xs[1])

\* the literal 0.0000000001 of the default branch: 1 * 10^e
UnknownMethodMeas == [nan |-> FALSE, n |-> 1, d |-> 1, e |-> -10]

\* the switch on meth: the value of the record emitted for a window
Aggregate(meth, local, sum) ==
    CASE meth \in {"Average", "average", "avg"} -> Mean(local).val
      [] meth \in {"Maximum", "maximum", "max"} -> Bounds(local).max
      [] meth \in {"Minimum", "minimum", "min"} -> Bounds(local).min
      [] meth \in {"Last", "last"} -> local[Len(local)]
      [] meth \in {"Sum", "sum"} -> sum
      [] OTHER -> UnknownMethodMeas

\* a collection loop that tests Chron.Before(windowEnd) instead of !After
EdgeExcluded(windowEnd, per, tolerance) == windowEnd - Millisecond

\* the upper edge a point is compared with when a window is collected
CollectEdge(windowEnd, per, tolerance) == windowEnd

\* step 1: the points of the current window; i is 0-based
RECURSIVE Collect(_, _, _, _)
Collect(ds, i, edge, local) ==
    IF i < Len(ds) /\ ~(ds[i + 1].Chron > edge)
    THEN Collect(ds, i + 1, edge, Append(local, ds[i + 1].Meas))
    ELSE [i |-> i, local |-> local]

\* the smallest grid instant k*period, period > 0, that is not earlier than t
BucketEnd(t, period) == ((t + period - 1) \div period) * period

\* a gap loop that moves to the window of the next point without emitting
\* the records of the empty windows
AdvanceWithoutSentinels(chron, windowEnd, freq, per, tolerance, out) ==
    [windowEnd |-> BucketEnd(chron, AddDuration(0, freq, per)), out |-> out]

\* step 3: advance to the window of the next point, a NaN record per empty window
RECURSIVE Advance(_, _, _, _, _, _)
Advance(chron, windowEnd, freq, per, tolerance, out) ==
    LET nextEnd == AddDurationTol(windowEnd, freq, per, 0)
        nextEndTol == AddDurationTol(windowEnd, freq, per, tolerance)
    IN  IF ~(chron > nextEndTol)
        THEN [windowEnd |-> nextEnd, out |-> out]
        ELSE Advance(chron, nextEnd, freq, per, tolerance,
                     AddDataUnit(out, DataUnit(nextEnd, NaN, StOK)))

\* with a period <= 0 the window end never moves forward: a point that is
\* still pending after a collection stays beyond every later window end and
\* the outer loop has no exit
NeverAdvances(windowEnd, freq, per) == AddDurationTol(windowEnd, freq, per, 0) <= windowEnd

\* a stop test that leaves the last point pending
LastPending(i, ds) == i >= Len(ds) - 1

\* the stop of the outer loop: no point is pending
AllConsumed(i, ds) == i >= Len(ds)

\* step 2: the record of the window, if it holds a point
Emit(out, windowEnd, meth, local) ==
    IF Len(local) > 0
    THEN AddDataUnit(out, DataUnit(windowEnd, Aggregate(meth, local, SumLoop(local, F(0))), StOK))
    ELSE out

\* one pass of the gap loop: leave has the value of the break
GapPass(chron, windowEnd, freq, per, tolerance, out) ==
    LET nextEnd == AddDurationTol(windowEnd, freq, per, 0)
        nextEndTol == AddDurationTol(windowEnd, freq, per, tolerance)
    IN  IF ~(chron > nextEndTol)
        THEN [leave |-> TRUE, windowEnd |-> nextEnd, out |-> out]
        ELSE [leave |-> FALSE, windowEnd |-> nextEnd,
              out |-> AddDataUnit(out, DataUnit(nextEnd, NaN, StOK))]

\* the outer loop: hang is TRUE when it never ends
RECURSIVE Walk(_, _, _, _, _, _, _, _)
Walk(ds, i, windowEnd, freq, per, meth, tolerance, out) ==
    LET c == Collect(ds, i, CollectEdge(windowEnd, per, tolerance), <<>>)
        sum == SumLoop(c.local, F(0))
        out1 == IF Len(c.local) > 0
                THEN AddDataUnit(out, DataUnit(windowEnd, Aggregate(meth, c.local, sum), StOK))
                ELSE out
    IN  IF AllConsumed(c.i, ds) THEN [hang |-> FALSE, out |-> out1]
        ELSE IF NeverAdvances(windowEnd, freq, per) THEN [hang |-> TRUE, out |-> out1]
        ELSE LET a == Advance(ds[c.i + 1].Chron, windowEnd, freq, per, tolerance, out1)
             IN  Walk(ds, c.i, a.windowEnd, freq, per, meth, tolerance, a.out)

\* the first window end
FirstWindowEnd(datemin, freq, per) ==
    LET start0 == RoundedStartTime(datemin, freq, per)
        start == IF datemin = start0 THEN AddDuration(datemin, -freq, per) ELSE start0
    IN  AddDurationTol(start, freq, per, 0)

\* every result Regularize can return: the receiver afterwards and the new
\* series; fatal stands for log.Fatal, hang for a call that never returns
Regularize(tsin, freq, per0, meth, tolerance) ==
    LET per == NormalizePer(per0)
    IN  IF per = "fatal"
        THEN {[fatal |-> TRUE, hang |-> FALSE, tsin |-> tsin, out |-> TimeSeries]}
        ELSE IF Len(tsin.DataSeries) = 0
        THEN {[fatal |-> FALSE, hang |-> FALSE, tsin |-> tsin, out |-> TimeSeries]}
        ELSE {[fatal |-> FALSE, hang |-> w.hang,
               tsin |-> [tsin EXCEPT !.DataSeries = ds],
               out |-> w.out]
              : <<ds, w>> \in {<<s, Walk(s, 0, FirstWindowEnd(s[1].Chron, freq, per),
                                         freq, per, meth, tolerance, TimeSeries)>>
                               : s \in SortChronAsc(tsin.DataSeries)}}

----------------------------------------------------------------------------
(* The state machine: a receiver series and the calls made on it *)

NoCall == [name |-> "none", args |-> <<>>]

Call(name, args) == [name |-> name, args |-> args]

Meases == {F(v) : v \in 0..MaxMeas} \cup {NaN}

\* statuses of the records the receiver is built from
InitStatus == {StOK, StMissing}

DataUnits ==
    {DataUnit(c * ChronStep, m, st) : c \in 0..MaxChron, m \in Meases, st \in InitStatus}

Receiver(ds) ==
    [Name |-> <<"T">>, Comment |-> "fixture", DataSeries |-> ds, BasicStats |-> BasicStats]

\* no statistical primitive has returned
NoResult == [val |-> NaN, err |-> "none"]

\* no Regularize call is walking
NoWalk == [i |-> 0, windowEnd |-> 0, at |-> "none", taken |-> <<>>]

\* the specifications that work on values keep no arrays
NoHeap == <<>>
NoRefs == <<>>

InitWith(series) ==
    /\ ts \in series
    /\ tsout = TimeSeries
    /\ tsrej = TimeSeries
    /\ op = NoCall
    /\ pre = ts
    /\ outcome = "none"
    /\ slice = <<>>
    /\ res = NoResult
    /\ walk = NoWalk
    /\ heap = NoHeap
    /\ refs = NoRefs

\* records of the longer series of Spec: numeric values, a status other than
\* the ones the cleaning operations write
LongUnits ==
    {DataUnit(c * ChronStep, F(v), StMissing) : c \in 0..MaxChron, v \in 0..MaxMeas}

Init ==
    InitWith({Receiver(ds) : ds \in UNION {[1..n -> DataUnits] : n \in 0..MaxLen}
                                    \cup [1..MaxLenP -> LongUnits]})

\* no call is in progress and no returned series is held
Idle == outcome = "none"

Returned(call, tsin, out, rej) ==
    /\ Idle
    /\ ts' = tsin
    /\ tsout' = out
    /\ tsrej' = rej
    /\ op' = call
    /\ pre' = ts
    /\ outcome' = "returned"
    /\ UNCHANGED <<slice, res, walk, heap, refs>>

\* the call did not return: a run-time panic, log.Fatal, or a loop without end
Aborted(call, how) ==
    /\ Idle
    /\ ts' = ts
    /\ tsout' = TimeSeries
    /\ tsrej' = TimeSeries
    /\ op' = call
    /\ pre' = ts
    /\ outcome' = how
    /\ UNCHANGED <<slice, res, walk, heap, refs>>

CallRemoveOutbounds ==
    /\ Idle
    /\ \E min, max \in 0..MaxMeas :
        \E lo \in {AsBound(F(min))}, hi \in {AsBound(F(max))} :
          \E r \in RemoveOutbounds(ts, lo, hi) :
            Returned(Call("RemoveOutbounds", <<min, max>>), r.tsin, r.tsout, r.tsrej)

Percs == {0, 25, 50, 100, 125}

CallPercCleaning ==
    /\ Idle
    /\ \E perc \in Percs :
        \E r \in PercCleaning(ts, perc) :
            Returned(Call("PercCleaning", <<perc>>), r.tsin, r.tsout, r.tsrej)

CallZscoreCleaning ==
    /\ Idle
    /\ \E lvl \in 0..MaxLvl :
        \E r \in ZscoreCleaning(ts, lvl) :
            Returned(Call("ZscoreCleaning", <<lvl>>), r.tsin, r.tsout, r.tsrej)

CallPeirceOutlierRemoval ==
    /\ Idle
    /\ \E r \in PeirceOutlierRemoval(ts) :
        IF r.panic
        THEN Aborted(Call("PeirceOutlierRemoval", <<>>), "panic")
        ELSE Returned(Call("PeirceOutlierRemoval", <<>>), ts, r.tsout, r.tsrej)

CallRegularize(freqs, pers, meths, tolerances) ==
    /\ Idle
    /\ \E freq \in freqs, per \in pers, meth \in meths, tolerance \in tolerances :
        \E r \in Regularize(ts, freq, per, meth, tolerance) :
            IF r.fatal
            THEN Aborted(Call("Regularize", <<freq, per, meth, tolerance>>), "fatal")
            ELSE IF r.hang
            THEN Aborted(Call("Regularize", <<freq, per, meth, tolerance>>), "hang")
            ELSE Returned(Call("Regularize", <<freq, per, meth, tolerance>>),
                          r.tsin, r.out, TimeSeries)

\* the caller lets go of the returned series; the receiver stays as the call
\* left it and can be called again
Release ==
    /\ ~Idle
    /\ outcome \notin {"fatal", "hang", "running"}
    /\ tsout' = TimeSeries
    /\ tsrej' = TimeSeries
    /\ op' = NoCall
    /\ pre' = ts
    /\ outcome' = "none"
    /\ res' = NoResult
    /\ walk' = NoWalk
    /\ UNCHANGED <<ts, slice, heap, refs>>

Next ==
    \/ Release
    \/ CallRemoveOutbounds
    \/ CallPercCleaning
    \/ CallZscoreCleaning
    \/ CallPeirceOutlierRemoval
    \/ CallRegularize({1}, {"s", "d"}, {"avg", "median"}, {0})

Spec == Init /\ [][Next]_vars

----------------------------------------------------------------------------
(* Peirce's criterion on series long enough for a rejection that returns *)

InitPeirce ==
    InitWith({Receiver(ds) : ds \in UNION {[1..n -> DataUnits] : n \in 0..MaxLenP}})

\* Peirce called on the measurements of the receiver; res.val holds the
\* positions it returns
CallPeirce ==
    /\ Idle
    /\ \E data \in {MeasToArr(ts)} :
        \E r \in Peirce(data) :
            IF r.panic
            THEN Aborted(Call("Peirce", <<data>>), "panic")
            ELSE /\ res' = [val |-> r.toremove, err |-> ErrNil]
                 /\ op' = Call("Peirce", <<data>>)
                 /\ outcome' = "returned"
                 /\ UNCHANGED <<ts, tsout, tsrej, pre, slice, walk, heap, refs>>

NextPeirce ==
    \/ Release
    \/ CallPeirceOutlierRemoval
    \/ CallPeirce

SpecPeirce == InitPeirce /\ [][NextPeirce]_vars

----------------------------------------------------------------------------
(* The critical-ratio table looked up entry by entry *)

InitTable == InitWith({TimeSeries})

\* an index outside the array panics
CallRtable ==
    /\ Idle
    /\ \E sampleLength \in (-1)..RtableRowCount, suspects \in (-1)..RtableColCount :
        IF InTable(sampleLength, suspects)
        THEN /\ res' = [val |-> Rtable(sampleLength, suspects), err |-> ErrNil]
             /\ op' = Call("Rtable", <<sampleLength, suspects>>)
             /\ outcome' = "returned"
             /\ UNCHANGED <<ts, tsout, tsrej, pre, slice, walk, heap, refs>>
        ELSE Aborted(Call("Rtable", <<sampleLength, suspects>>), "panic")

NextTable ==
    \/ Release
    \/ CallRtable

SpecTable == InitTable /\ [][NextTable]_vars

----------------------------------------------------------------------------
(* Regularize on series that span several windows *)

RegUnits == {DataUnit(k * ChronStep, m, StOK) : k \in 0..MaxTick, m \in Meases}

\* the series in chronological order, and the shorter ones in any order
RegSeries ==
    UNION {{ds \in [1..n -> RegUnits] :
               n < MaxLenR \/ \A i \in 1..(n - 1) : ds[i].Chron <= ds[i + 1].Chron}
           : n \in 0..MaxLenR}

RegMeths == {"avg", "max", "min", "last", "sum", "mode"}

InitReg == InitWith({Receiver(ds) : ds \in RegSeries})

NextReg ==
    \/ Release
    \/ CallRegularize((-1)..MaxFreq, {"s", "m"}, RegMeths, {0, ChronStep})

SpecReg == InitReg /\ [][NextReg]_vars

----------------------------------------------------------------------------
(* Regularize window by window: the outer loop of the walk taken one       *)
(* collection and one pass of the gap loop at a time.  walk.i is the next  *)
(* pending index, walk.windowEnd the current window end, walk.taken the    *)
(* positions each emitted record was collected from.                       *)

WalkUnits == {DataUnit(k * ChronStep, m, StOK) : k \in 0..MaxTick, m \in Meases}

InitWalk ==
    InitWith({Receiver(ds) : ds \in UNION {[1..n -> WalkUnits] : n \in 0..MaxLenW}})

WalkPers == {"s", "min", "d"}

WalkMeths == {"last", "sum"}

WalkTolerances == {-ChronStep, 0, 3 * ChronStep}

\* the call up to the first window end
StartWalk ==
    /\ Idle
    /\ \E freq \in 1..MaxFreq, per0 \in WalkPers, meth \in WalkMeths,
          tolerance \in WalkTolerances :
        \E per \in {NormalizePer(per0)} :
            IF per = "fatal"
            THEN Aborted(Call("Regularize", <<freq, per0, meth, tolerance>>), "fatal")
            ELSE IF Len(ts.DataSeries) = 0
            THEN Returned(Call("Regularize", <<freq, per0, meth, tolerance>>),
                          ts, TimeSeries, TimeSeries)
            ELSE \E s \in SortChronAsc(ts.DataSeries) :
                    /\ ts' = [ts EXCEPT !.DataSeries = s]
                    /\ tsout' = TimeSeries
                    /\ tsrej' = TimeSeries
                    /\ op' = Call("Regularize", <<freq, per0, meth, tolerance>>)
                    /\ pre' = ts
                    /\ outcome' = "running"
                    /\ walk' = [i |-> 0, windowEnd |-> FirstWindowEnd(s[1].Chron, freq, per),
                                at |-> "collect", taken |-> <<>>]
                    /\ UNCHANGED <<slice, res, heap, refs>>

\* steps 1 and 2, and the stop when no point is pending
CollectStep ==
    /\ outcome = "running"
    /\ walk.at = "collect"
    /\ \E c \in {Collect(ts.DataSeries, walk.i,
                          CollectEdge(walk.windowEnd, NormalizePer(op.args[2]),
                                      op.args[4]), <<>>)} :
        /\ tsout' = Emit(tsout, walk.windowEnd, op.args[3], c.local)
        /\ walk' = [i |-> c.i, windowEnd |-> walk.windowEnd,
                    at |-> IF AllConsumed(c.i, ts.DataSeries) THEN "done" ELSE "gap",
                    taken |-> IF Len(c.local) > 0
                              THEN Append(walk.taken, [Chron |-> walk.windowEnd,
                                                       points |-> (walk.i + 1)..c.i])
                              ELSE walk.taken]
        /\ outcome' = IF AllConsumed(c.i, ts.DataSeries) THEN "returned" ELSE "running"
    /\ UNCHANGED <<ts, tsrej, op, pre, slice, res, heap, refs>>

\* step 3, one pass
GapStep ==
    /\ outcome = "running"
    /\ walk.at = "gap"
    /\ \E g \in {GapPass(ts.DataSeries[walk.i + 1].Chron, walk.windowEnd,
                          op.args[1], NormalizePer(op.args[2]), op.args[4], tsout)} :
        /\ tsout' = g.out
        /\ walk' = [walk EXCEPT !.windowEnd = g.windowEnd,
                                !.at = IF g.leave THEN "collect" ELSE "gap"]
    /\ UNCHANGED <<ts, tsrej, op, pre, outcome, slice, res, heap, refs>>

NextWalk ==
    \/ Release
    \/ StartWalk
    \/ CollectStep
    \/ GapStep

\* a call that was made goes on running
SpecWalk ==
    InitWalk /\ [][NextWalk]_vars /\ WF_vars(CollectStep) /\ WF_vars(GapStep)

----------------------------------------------------------------------------
(* The statistical primitives called on a caller's slice *)

StatValues == {F(v) : v \in 0..MaxVal} \cup {NaN}

\* percentages for which p / 100 * n is exact in float64
StatPercs == {-25, 0, 25, 50, 75, 100, 125}

InitStats ==
    /\ ts = TimeSeries
    /\ tsout = TimeSeries
    /\ tsrej = TimeSeries
    /\ op = NoCall
    /\ pre = ts
    /\ outcome = "none"
    /\ slice \in UNION {[1..n -> StatValues] : n \in 0..MaxLenS}
    /\ res = NoResult
    /\ walk = NoWalk
    /\ heap = NoHeap
    /\ refs = NoRefs

\* the primitive returned r and left the caller's slice as after; the call
\* records the slice as it was handed in
StatReturned(name, args, after, r) ==
    /\ Idle
    /\ slice' = after
    /\ res' = [val |-> r.val, err |-> r.err]
    /\ op' = Call(name, <<slice>> \o args)
    /\ outcome' = "returned"
    /\ UNCHANGED <<ts, tsout, tsrej, pre, walk, heap, refs>>

CallSum == Idle /\ StatReturned("Sum", <<>>, slice, Sum(slice))

CallMean == Idle /\ StatReturned("Mean", <<>>, slice, Mean(slice))

CallMedian ==
    /\ Idle
    /\ \E r \in {Median(slice)} : StatReturned("Median", <<>>, r.input, r)

CallMin == Idle /\ StatReturned("Min", <<>>, slice, Min(slice))

CallMax == Idle /\ StatReturned("Max", <<>>, slice, Max(slice))

CallStdDev == Idle /\ StatReturned("StdDev", <<>>, slice, StdDev(slice))

CallPercentile ==
    /\ Idle
    /\ \E p \in StatPercs : StatReturned("Percentile", <<p>>, slice, Percentile(slice, p))

NextStats ==
    \/ Release
    \/ CallSum
    \/ CallMean
    \/ CallMedian
    \/ CallMin
    \/ CallMax
    \/ CallStdDev
    \/ CallPercentile

SpecStats == InitStats /\ [][NextStats]_vars

----------------------------------------------------------------------------
(* RemoveElements on series of distinguishable records *)

\* the lists of positions handed to RemoveElements
IdxLists == UNION {[1..n -> (-1)..MaxLen] : n \in 0..MaxIdx}

CallRemoveElements ==
    /\ Idle
    /\ \E idx \in IdxLists :
        \E r \in {RemoveElements(ts, idx)} :
            Returned(Call("RemoveElements", <<idx>>), ts, r.tsout, r.tsrej)

InitRemove ==
    InitWith({Receiver(ds) : ds \in UNION {[1..n -> DataUnits] : n \in 0..MaxLen}})

NextRemove ==
    \/ Release
    \/ CallRemoveElements

SpecRemove == InitRemove /\ [][NextRemove]_vars

----------------------------------------------------------------------------
(* The status partition, the sorted copies and the summary statistics on   *)
(* series whose records carry every status                                 *)

SeriesUnits ==
    {DataUnit(c * ChronStep, m, st) : c \in 0..MaxChron, m \in Meases, st \in StatusCode}

InitSeries ==
    InitWith({Receiver(ds) : ds \in UNION {[1..n -> SeriesUnits] : n \in 0..MaxLenT}})

SortNames == {<<"S">>}

CallRemovedNonValid ==
    /\ Idle
    /\ \E r \in {RemovedNonValid(ts)} :
        Returned(Call("RemovedNonValid", <<>>), ts, r.tsout, r.tsrej)

CallSortMeasAscNamed ==
    /\ Idle
    /\ \E name \in SortNames :
        \E sorted \in SortMeasAscNamed(ts, name) :
            Returned(Call("SortMeasAsc", <<name>>), ts, sorted, TimeSeries)

CallSortMeasDescNamed ==
    /\ Idle
    /\ \E name \in SortNames :
        \E sorted \in SortMeasDescNamed(ts, name) :
            Returned(Call("SortMeasDesc", <<name>>), ts, sorted, TimeSeries)

CallSortedMeasAsc ==
    /\ Idle
    /\ \E sorted \in SortedMeasAsc(ts) :
        Returned(Call("SortedMeasAsc", <<>>), ts, sorted, TimeSeries)

CallSortedMeasDesc ==
    /\ Idle
    /\ \E sorted \in SortedMeasDesc(ts) :
        Returned(Call("SortedMeasDesc", <<>>), ts, sorted, TimeSeries)

CallSortDeltasStats ==
    /\ Idle
    /\ ts.BasicStats.NbreOfNaN <= MaxNbre
    /\ \E after \in SortDeltasStats(ts) :
        Returned(Call("Sort_Deltas_Stats", <<>>), after, TimeSeries, TimeSeries)

CallComputeBasicStats ==
    /\ Idle
    /\ ts.BasicStats.NbreOfNaN <= MaxNbre
    /\ \E after \in {ComputeBasicStats(ts)} :
        Returned(Call("ComputeBasicStats", <<>>), after, TimeSeries, TimeSeries)

NextSeries ==
    \/ Release
    \/ CallRemovedNonValid
    \/ CallSortMeasAscNamed
    \/ CallSortMeasDescNamed
    \/ CallSortedMeasAsc
    \/ CallSortedMeasDesc
    \/ CallSortDeltasStats
    \/ CallComputeBasicStats

SpecSeries == InitSeries /\ [][NextSeries]_vars

----------------------------------------------------------------------------
(* Slices and their backing arrays.  heap[id] is a backing array, as long  *)
(* as its capacity; refs[s] is the slice header DataSeries of the series   *)
(* the caller holds in s: the array and the length.  a and b are source    *)
(* series, r1 and r2 the series the last call returned.  In the            *)
(* specifications of this section ts is the series a as the caller sees    *)
(* it, and tsout and tsrej are r1 and r2 as they were returned.            *)

Slots == {"a", "b", "r1", "r2"}

\* the zero value of DataUnit, which fills a new array
ZeroUnit == DataUnit(0, F(0), StOK)

\* the nil slice of a series declared with var
NilSlice == [arr |-> 0, len |-> 0]

EmptyHeap == [id \in 1..MaxArr |-> <<>>]

NoSeriesHeld == [s \in Slots |-> NilSlice]

\* cap(s)
Cap(h, s) == IF s.arr = 0 THEN 0 ELSE Len(h[s.arr])

\* the records of s: s[0], ..., s[len(s)-1]
View(h, s) == IF s.arr = 0 THEN <<>> ELSE SubSeq(h[s.arr], 1, s.len)

\* the arrays the slices of the slots refer to
Arrays(r, slots) == {r[s].arr : s \in slots} \ {0}

\* an array no slice refers to is reclaimed
Reclaim(h, r) == [id \in DOMAIN h |-> IF id \in Arrays(r, DOMAIN r) THEN h[id] ELSE <<>>]

LeastFree(h) ==
    CHOOSE id \in DOMAIN h : h[id] = <<>> /\ \A o \in DOMAIN h : h[o] = <<>> => id <= o

\* the capacities append may pick for a slice that is full: enough for one
\* more record, or the double
GrownCaps(old) == {old + 1, IF old = 0 THEN 1 ELSE 2 * old}

\* s = append(s, du); the array left behind goes unless keep holds it
Append1(h, s, du, keep) ==
    IF s.len < Cap(h, s)
    THEN {[heap |-> [h EXCEPT ![s.arr][s.len + 1] = du],
           s |-> [s EXCEPT !.len = @ + 1]]}
    ELSE {[heap |-> [id \in DOMAIN h |->
                        IF id = new
                        THEN View(h, s) \o <<du>> \o [i \in 1..(c - s.len - 1) |-> ZeroUnit]
                        ELSE IF id = s.arr /\ id \notin keep THEN <<>> ELSE h[id]],
           s |-> [arr |-> new, len |-> s.len + 1]]
          : <<c, new>> \in GrownCaps(Cap(h, s)) \X {LeastFree(h)}}

RECURSIVE AppendAll(_, _, _, _)
AppendAll(h, s, dus, keep) ==
    IF dus = <<>> THEN {[heap |-> h, s |-> s]}
    ELSE UNION {AppendAll(n.heap, n.s, Tail(dus), keep)
                : n \in Append1(h, s, Head(dus), keep)}

\* a result that is built in the array of the source, from its first cell
SourcePrefixSlice(h, src, dus, keep) == AppendAll(h, [src EXCEPT !.len = 0], dus, keep)

\* the slice of a series a call returns: declared with var, then appended to
DerivedSlice(h, src, dus, keep) == AppendAll(h, NilSlice, dus, keep)

\* the records of s replaced in place, as a sort in place does
WriteView(h, s, dus) ==
    IF s.arr = 0 THEN h
    ELSE [h EXCEPT ![s.arr] = [i \in DOMAIN @ |-> IF i <= s.len THEN dus[i] ELSE @[i]]]

\* the series the caller holds in slot s
Held(s) ==
    IF s = "a" THEN [ts EXCEPT !.DataSeries = View(heap, refs[s])]
    ELSE [TimeSeries EXCEPT !.DataSeries = View(heap, refs[s])]

DeriveOps ==
    {"Copy", "Merge", "RemovedNonValid", "RemoveElements", "RemoveOutbounds",
     "PercCleaning", "ZscoreCleaning", "PeirceOutlierRemoval", "Regularize"}

\* the caller may make a call
CallerReady == outcome \in {"none", "returned", "panic"}

\* a call has just returned its series, and the caller has touched nothing
JustDerived == op.name \in DeriveOps /\ outcome = "returned"

\* nothing is held from an earlier call
NothingDerived == Idle

\* a call on the series of slot s has returned, leaving h and r
Touched(call, h, r) ==
    /\ heap' = Reclaim(h, r)
    /\ refs' = r
    /\ ts' = [ts EXCEPT !.DataSeries = View(h, r["a"])]
    /\ op' = call
    /\ pre' = ts
    /\ outcome' = "returned"
    /\ UNCHANGED <<tsout, tsrej, slice, res, walk>>

\* a call has panicked, which the caller recovers
Panicked(call) ==
    /\ op' = call
    /\ pre' = ts
    /\ outcome' = "panic"
    /\ UNCHANGED <<ts, tsout, tsrej, slice, res, walk, heap, refs>>

\* the records the caller adds
AddedUnits ==
    {DataUnit(0, F(1), StOK), DataUnit(ChronStep, F(0), StOK)}

AddedLists ==
    {<<DataUnit(ChronStep, F(0), StInvalid)>>,
     <<DataUnit(ChronStep, F(0), StInvalid), DataUnit(0, F(1), StOK)>>}

\* ts.AddData(chr, meas)
CallAddData(slots, ready) ==
    /\ ready
    /\ \E s \in slots, du \in AddedUnits :
        /\ refs[s].len < MaxLenH
        /\ \E n \in Append1(heap, refs[s], du, Arrays(refs, Slots \ {s})) :
            Touched(Call("AddData", <<s, du>>), n.heap, [refs EXCEPT ![s] = n.s])

\* ts.AddDataUnit(dus...)
CallAddDataUnit(slots, ready) ==
    /\ ready
    /\ \E s \in slots, dus \in AddedLists :
        /\ refs[s].len + Len(dus) <= MaxLenH
        /\ \E n \in AppendAll(heap, refs[s], dus, Arrays(refs, Slots \ {s})) :
            Touched(Call("AddDataUnit", <<s, dus>>), n.heap, [refs EXCEPT ![s] = n.s])

\* ts.Reset(): DataSeries[0:0]
CallReset(slots, ready) ==
    /\ ready
    /\ \E s \in slots :
        Touched(Call("Reset", <<s>>), heap, [refs EXCEPT ![s].len = 0])

\* ts.LimitSize(limit): DataSeries[:limit], which panics when limit is
\* negative or beyond the capacity
CallLimitSize(slots, ready) ==
    /\ ready
    /\ \E s \in slots :
        \E limit \in (-1)..(Cap(heap, refs[s]) + 1) :
            IF limit < 0 \/ limit > Cap(heap, refs[s])
            THEN Panicked(Call("LimitSize", <<s, limit>>))
            ELSE Touched(Call("LimitSize", <<s, limit>>), heap,
                         [refs EXCEPT ![s].len = limit])

\* the value the caller writes into a record
Written == F(MaxMeas + 1)

\* ts.DataSeries[i].Meas = v
CallSetMeas(slots, ready) ==
    /\ ready
    /\ \E s \in slots :
        \E i \in 1..refs[s].len :
            Touched(Call("SetMeas", <<s, i - 1>>),
                    [heap EXCEPT ![refs[s].arr][i].Meas = Written], refs)

\* ts.SortChronAsc() and ts.SortMeasAsc()
CallSortInPlace(slots, ready) ==
    /\ ready
    /\ \E s \in slots :
        \/ \E sorted \in SortChronAsc(View(heap, refs[s])) :
               Touched(Call("SortChronAsc", <<s>>), WriteView(heap, refs[s], sorted), refs)
        \/ \E sorted \in SortMeasAsc(View(heap, refs[s])) :
               Touched(Call("SortMeasAsc", <<s>>), WriteView(heap, refs[s], sorted), refs)

\* a call on a has returned the new series out and rej, leaving tsin in a
Derived(call, tsin, out, rej) ==
    \E h \in {WriteView(heap, refs["a"], tsin.DataSeries)} :
      \E o \in DerivedSlice(h, refs["a"], out.DataSeries, Arrays(refs, Slots)) :
        \E r \in DerivedSlice(o.heap, refs["a"], rej.DataSeries,
                              Arrays(refs, Slots) \cup {o.s.arr}) :
            /\ heap' = r.heap
            /\ refs' = [refs EXCEPT !["r1"] = o.s, !["r2"] = r.s]
            /\ ts' = [tsin EXCEPT !.DataSeries = View(r.heap, refs["a"])]
            /\ tsout' = [out EXCEPT !.DataSeries = View(r.heap, o.s)]
            /\ tsrej' = [rej EXCEPT !.DataSeries = View(r.heap, r.s)]
            /\ op' = call
            /\ pre' = ts
            /\ outcome' = "returned"
            /\ UNCHANGED <<slice, res, walk>>

DeriveCopy ==
    /\ NothingDerived
    /\ \E r \in Copy(ts) : Derived(Call("Copy", <<>>), ts, r, TimeSeries)

DeriveMerge ==
    /\ NothingDerived
    /\ Derived(Call("Merge", <<>>), ts, Merge(ts, Held("b")), TimeSeries)

DeriveRemovedNonValid ==
    /\ NothingDerived
    /\ \E r \in {RemovedNonValid(ts)} :
        Derived(Call("RemovedNonValid", <<>>), ts, r.tsout, r.tsrej)

DeriveRemoveElements ==
    /\ NothingDerived
    /\ \E idx \in {<<>>, <<0>>, <<1, 5>>} :
        \E r \in {RemoveElements(ts, idx)} :
            Derived(Call("RemoveElements", <<idx>>), ts, r.tsout, r.tsrej)

DeriveRemoveOutbounds ==
    /\ NothingDerived
    /\ \E min \in 0..MaxMeas :
        \E lo \in {AsBound(F(min))}, hi \in {AsBound(F(MaxMeas))} :
          \E r \in RemoveOutbounds(ts, lo, hi) :
            Derived(Call("RemoveOutbounds", <<min, MaxMeas>>), r.tsin, r.tsout, r.tsrej)

DerivePercCleaning ==
    /\ NothingDerived
    /\ \E perc \in {25, 50} :
        \E r \in PercCleaning(ts, perc) :
            Derived(Call("PercCleaning", <<perc>>), r.tsin, r.tsout, r.tsrej)

DeriveZscoreCleaning ==
    /\ NothingDerived
    /\ \E lvl \in 0..1 :
        \E r \in ZscoreCleaning(ts, lvl) :
            Derived(Call("ZscoreCleaning", <<lvl>>), r.tsin, r.tsout, r.tsrej)

DerivePeirceOutlierRemoval ==
    /\ NothingDerived
    /\ \E r \in PeirceOutlierRemoval(ts) :
        IF r.panic
        THEN Panicked(Call("PeirceOutlierRemoval", <<>>))
        ELSE Derived(Call("PeirceOutlierRemoval", <<>>), ts, r.tsout, r.tsrej)

DeriveRegularize ==
    /\ NothingDerived
    /\ \E meth \in {"sum", "last"} :
        \E r \in Regularize(ts, 1, "s", meth, 0) :
            Derived(Call("Regularize", <<1, "s", meth, 0>>), r.tsin, r.out, TimeSeries)

\* the caller lets the returned series go
Drop ==
    /\ op.name \in DeriveOps
    /\ CallerReady
    /\ heap' = Reclaim(heap, [refs EXCEPT !["r1"] = NilSlice, !["r2"] = NilSlice])
    /\ refs' = [refs EXCEPT !["r1"] = NilSlice, !["r2"] = NilSlice]
    /\ tsout' = TimeSeries
    /\ tsrej' = TimeSeries
    /\ op' = NoCall
    /\ pre' = ts
    /\ outcome' = "none"
    /\ UNCHANGED <<ts, slice, res, walk>>

----------------------------------------------------------------------------
(* A series filled, emptied and cut by its caller *)

InitStore ==
    /\ ts = Receiver(<<>>)
    /\ tsout = TimeSeries
    /\ tsrej = TimeSeries
    /\ op = NoCall
    /\ pre = ts
    /\ outcome = "none"
    /\ slice = <<>>
    /\ res = NoResult
    /\ walk = NoWalk
    /\ heap = EmptyHeap
    /\ refs = NoSeriesHeld

NextStore ==
    \/ CallAddData({"a"}, CallerReady)
    \/ CallAddDataUnit({"a"}, CallerReady)
    \/ CallReset({"a"}, CallerReady)
    \/ CallLimitSize({"a"}, CallerReady)

SpecStore == InitStore /\ [][NextStore]_vars

----------------------------------------------------------------------------
(* Two series as their caller has built them, the calls that return new    *)
(* series from them, and what the caller does next to one of the series    *)

SourceUnits == AddedUnits \cup {DataUnit(ChronStep, F(0), StInvalid)}

\* a series of records added one by one to a nil slice
Built(dus) == AppendAll(EmptyHeap, NilSlice, dus, {})

InitDerive ==
    /\ \E da \in UNION {[1..n -> SourceUnits] : n \in 0..MaxLenH},
          db \in UNION {[1..n -> AddedUnits] : n \in 0..MaxLenB} :
        \E a \in Built(da) :
          \E b \in AppendAll(a.heap, NilSlice, db, {a.s.arr}) :
            /\ heap = b.heap
            /\ refs = [NoSeriesHeld EXCEPT !["a"] = a.s, !["b"] = b.s]
            /\ ts = Receiver(da)
    /\ tsout = TimeSeries
    /\ tsrej = TimeSeries
    /\ op = NoCall
    /\ pre = ts
    /\ outcome = "none"
    /\ slice = <<>>
    /\ res = NoResult
    /\ walk = NoWalk

NextDerive ==
    \/ DeriveCopy
    \/ DeriveMerge
    \/ DeriveRemovedNonValid
    \/ DeriveRemoveElements
    \/ DeriveRemoveOutbounds
    \/ DerivePercCleaning
    \/ DeriveZscoreCleaning
    \/ DerivePeirceOutlierRemoval
    \/ DeriveRegularize
    \/ Drop
    \/ CallAddData(Slots, JustDerived)
    \/ CallReset(Slots, JustDerived)
    \/ CallLimitSize(Slots, JustDerived)
    \/ CallSetMeas(Slots, JustDerived)
    \/ CallSortInPlace(Slots, JustDerived)

SpecDerive == InitDerive /\ [][NextDerive]_vars

----------------------------------------------------------------------------
(* Vocabulary of the properties *)

Count(s, x) == Cardinality({i \in DOMAIN s : s[i] = x})

\* the two sequences hold the same elements, each the same number of times
SameBag(s, t) ==
    /\ Len(s) = Len(t)
    /\ \A i \in DOMAIN s : Count(s, s[i]) = Count(t, s[i])

\* the records with their status left out
Unstamped(s) == [i \in DOMAIN s |-> [s[i] EXCEPT !.Status = StOK]]

IsChronSorted(s) == \A i \in 1..(Len(s) - 1) : s[i].Chron <= s[i + 1].Chron

Chrons(s) == [i \in DOMAIN s |-> s[i].Chron]

\* s is t with some elements left out
RECURSIVE IsSubSeq(_, _)
IsSubSeq(s, t) ==
    IF s = <<>> THEN TRUE
    ELSE IF t = <<>> THEN FALSE
    ELSE IF Head(s) = Head(t) THEN IsSubSeq(Tail(s), Tail(t))
    ELSE IsSubSeq(s, Tail(t))

HasReturned(name) == op.name = name /\ outcome = "returned"

BoundOps == {"RemoveOutbounds", "PercCleaning", "ZscoreCleaning"}
CleaningOps == BoundOps \cup {"PeirceOutlierRemoval"}

----------------------------------------------------------------------------
(* RemoveOutbounds *)

\* C1: RemoveOutbounds partitions the receiver: the kept and the rejected
\* series together hold the records of the receiver, each exactly as often as
\* the receiver does (timestamp, value and deltas; the status is rewritten),
\* and len(kept) + len(rejected) = len(input).
C1_Partition ==
    HasReturned("RemoveOutbounds") =>
        /\ SameBag(Unstamped(tsout.DataSeries \o tsrej.DataSeries), Unstamped(pre.DataSeries))
        /\ Len(tsout.DataSeries) + Len(tsrej.DataSeries) = Len(pre.DataSeries)

\* a call that kept some records and rejected others
C1_Witness ==
    /\ HasReturned("RemoveOutbounds")
    /\ Len(pre.DataSeries) >= MaxLen
    /\ Len(tsout.DataSeries) >= 1
    /\ Len(tsrej.DataSeries) >= 1

\* low <= value <= high, on float64
Within(meas, low, high) == FLeq(low, meas) /\ FLeq(meas, high)

\* C2: RemoveOutbounds(low, high) classifies every record, whatever its
\* status and whether its value is a number or not-a-number, by the inclusive
\* interval test: kept with status OK iff low <= value <= high, otherwise
\* rejected with status Outlier; timestamp and value are unchanged.
C2_IntervalTest ==
    HasReturned("RemoveOutbounds") =>
        LET low == F(op.args[1])
            high == F(op.args[2])
            kept == tsout.DataSeries
            rejected == tsrej.DataSeries
        IN  /\ \A i \in DOMAIN kept :
                   kept[i].Status = StOK /\ Within(kept[i].Meas, low, high)
            /\ \A i \in DOMAIN rejected :
                   rejected[i].Status = StOutlier /\ ~Within(rejected[i].Meas, low, high)
            /\ SameBag(Unstamped(kept \o rejected), Unstamped(pre.DataSeries))

\* a record whose value is not a number is in the kept series, status OK
C2_NaNKept ==
    /\ HasReturned("RemoveOutbounds")
    /\ \E i \in DOMAIN tsout.DataSeries :
           IsNaN(tsout.DataSeries[i].Meas) /\ tsout.DataSeries[i].Status = StOK

\* C3 as stated: after RemoveOutbounds the receiver's sequence of timestamps
\* equals the sequence it had before the call.
C3_SameTimestamps ==
    HasReturned("RemoveOutbounds") => Chrons(ts.DataSeries) = Chrons(pre.DataSeries)

\* C3: RemoveOutbounds leaves the receiver in ascending chronological order;
\* its sequence of timestamps equals the one before the call whenever the
\* receiver was in chronological order when the call was made.
C3_ChronRestored ==
    HasReturned("RemoveOutbounds") =>
        /\ IsChronSorted(ts.DataSeries)
        /\ IsChronSorted(pre.DataSeries) => Chrons(ts.DataSeries) = Chrons(pre.DataSeries)

\* a receiver in chronological order that the internal sort by value reorders
C3_Witness ==
    /\ HasReturned("RemoveOutbounds")
    /\ IsChronSorted(pre.DataSeries)
    /\ \E i \in 1..(Len(pre.DataSeries) - 1) :
           /\ pre.DataSeries[i].Chron < pre.DataSeries[i + 1].Chron
           /\ FLess(pre.DataSeries[i + 1].Meas, pre.DataSeries[i].Meas)

----------------------------------------------------------------------------
(* The four cleaning operations *)

\* C4 as stated: after each of the four cleaning operations both returned
\* series are in ascending chronological order.
C4_AllOutputsChronological ==
    (op.name \in CleaningOps /\ outcome = "returned") =>
        IsChronSorted(tsout.DataSeries) /\ IsChronSorted(tsrej.DataSeries)

\* C4: RemoveOutbounds, PercCleaning and ZscoreCleaning return both series in
\* ascending chronological order for every input; PeirceOutlierRemoval
\* returns both series in the order the records have in the receiver, so
\* they are in chronological order whenever the receiver is.
C4_OutputOrder ==
    /\ (op.name \in BoundOps /\ outcome = "returned") =>
           IsChronSorted(tsout.DataSeries) /\ IsChronSorted(tsrej.DataSeries)
    /\ HasReturned("PeirceOutlierRemoval") =>
           /\ IsSubSeq(tsout.DataSeries, pre.DataSeries)
           /\ IsSubSeq(tsrej.DataSeries, pre.DataSeries)
           /\ IsChronSorted(pre.DataSeries) =>
                  IsChronSorted(tsout.DataSeries) /\ IsChronSorted(tsrej.DataSeries)

\* PeirceOutlierRemoval has split a series that is in chronological order
C4_Witness ==
    /\ HasReturned("PeirceOutlierRemoval")
    /\ IsChronSorted(pre.DataSeries)
    /\ Len(tsrej.DataSeries) >= 1
    /\ \E i, j \in DOMAIN tsout.DataSeries :
           tsout.DataSeries[i].Chron < tsout.DataSeries[j].Chron

\* C5: the cleaning operations and Regularize never mutate the input's
\* records or its statistics: when one of them returns, the receiver holds
\* the same records as before the call, each as often as before, with the
\* same timestamp, value, status and deltas, and the same statistics record.
C5_ReceiverRecordsKept ==
    (op.name \in CleaningOps \cup {"Regularize"} /\ outcome = "returned") =>
        /\ SameBag(ts.DataSeries, pre.DataSeries)
        /\ ts.BasicStats = pre.BasicStats

\* an output record carries a status the receiver's records do not have, and
\* the call has reordered the receiver
C5_Witness ==
    /\ op.name \in BoundOps
    /\ outcome = "returned"
    /\ ts.DataSeries # pre.DataSeries
    /\ \A i \in DOMAIN pre.DataSeries : pre.DataSeries[i].Status = StMissing
    /\ Len(tsout.DataSeries) >= 1
    /\ Len(tsrej.DataSeries) >= 1

----------------------------------------------------------------------------
(* Peirce's criterion *)

\* the records of ds at the 0-based positions of the set, in the order of ds
RECURSIVE PickFrom(_, _, _)
PickFrom(ds, k, positions) ==
    IF k > Len(ds) THEN <<>>
    ELSE (IF (k - 1) \in positions THEN <<ds[k]>> ELSE <<>>) \o PickFrom(ds, k + 1, positions)

Stamped(ds, status) == [i \in DOMAIN ds |-> [ds[i] EXCEPT !.Status = status]]

\* C6: PeirceOutlierRemoval redistributes every record exactly once: the
\* records at the positions Peirce marks are the rejected series and carry
\* status Outlier, the other records are the kept series with their status
\* unchanged, and len(kept) + len(rejected) = len(input).
C6_Redistribution ==
    HasReturned("PeirceOutlierRemoval") =>
        \E r \in Peirce(MeasToArr(pre)) :
            LET marked == {r.toremove[i] : i \in DOMAIN r.toremove}
                others == (0..(Len(pre.DataSeries) - 1)) \ marked
            IN  /\ ~r.panic
                /\ tsrej.DataSeries = Stamped(PickFrom(pre.DataSeries, 1, marked), StOutlier)
                /\ tsout.DataSeries = PickFrom(pre.DataSeries, 1, others)
                /\ Len(tsout.DataSeries) + Len(tsrej.DataSeries) = Len(pre.DataSeries)

\* a rejected record that does not carry status Outlier
C6_RejectedNotOutlier ==
    /\ HasReturned("PeirceOutlierRemoval")
    /\ \E i \in DOMAIN tsrej.DataSeries : tsrej.DataSeries[i].Status # StOutlier

\* C7: Peirce never indexes the critical-ratio table outside rows 0..57 and
\* columns 0..8 nor the ranked deviations at an index >= their number, for
\* every input including the empty one and those of fewer than 4 values: a
\* call does not abort with an index-out-of-range failure.
C7_NoIndexOutOfRange ==
    op.name = "PeirceOutlierRemoval" => outcome # "panic"

\* a series of three values or more on which the walk runs off its data
C7_WalkPastTheEnd ==
    /\ op.name = "PeirceOutlierRemoval"
    /\ outcome = "panic"
    /\ Len(pre.DataSeries) >= 3

----------------------------------------------------------------------------
(* ZscoreCleaning and PercCleaning *)

\* the mean squared deviation from the mean, denominator = count
PopVariance(x) == FDiv(SqDiffSum(x, Mean(x).val, F(0)), F(Len(x)))

\* m - level*s <= value <= m + level*s, s the square root of variance
InEnvelope(meas, m, variance, level) ==
    LET low == Surd(m, F(-level), variance)
        high == Surd(m, F(level), variance)
    IN  /\ ~IsNaN(meas) /\ ~low.nan /\ ~high.nan
        /\ ~LessThanBound(meas, low)
        /\ ~GreaterThanBound(meas, high)

\* C8: ZscoreCleaning(level) uses the additive envelope around the mean: with
\* m the mean and s the population standard deviation of all values of the
\* series, the kept series holds exactly the records with
\* m - level*s <= value <= m + level*s and the rejected series all the others.
C8_AdditiveEnvelope ==
    (HasReturned("ZscoreCleaning") /\ Len(pre.DataSeries) > 0) =>
        LET x == MeasToArr(pre)
            m == Mean(x).val
            variance == PopVariance(x)
            level == op.args[1]
        IN  /\ \A i \in DOMAIN tsout.DataSeries :
                   InEnvelope(tsout.DataSeries[i].Meas, m, variance, level)
            /\ \A i \in DOMAIN tsrej.DataSeries :
                   ~InEnvelope(tsrej.DataSeries[i].Meas, m, variance, level)
            /\ SameBag(Unstamped(tsout.DataSeries \o tsrej.DataSeries),
                       Unstamped(pre.DataSeries))

\* a series with a value that is not a number: every record is kept
C8_NaNSeriesKept ==
    /\ HasReturned("ZscoreCleaning")
    /\ \E i \in DOMAIN pre.DataSeries : IsNaN(pre.DataSeries[i].Meas)
    /\ \E i \in DOMAIN pre.DataSeries : ~IsNaN(pre.DataSeries[i].Meas)
    /\ Len(tsout.DataSeries) = Len(pre.DataSeries)

InPercentileDomain(p) == p > 0 /\ p <= 100

\* C9: when PercCleaning(p) is called with p or 100 - p outside the
\* percentile domain (0, 100], it fails or returns two empty series; it does
\* not return a partition computed from the failed percentile's placeholder.
C9_NoGuessedBound ==
    (/\ op.name = "PercCleaning"
     /\ ~(InPercentileDomain(op.args[1]) /\ InPercentileDomain(100 - op.args[1]))) =>
        \/ outcome # "returned"
        \/ tsout.DataSeries = <<>> /\ tsrej.DataSeries = <<>>

\* a partition returned although Percentile(dt, p) failed with ErrBounds
C9_PartitionFromPlaceholder ==
    /\ HasReturned("PercCleaning")
    /\ \/ Percentile(MeasToArr(pre), op.args[1]).err = ErrBounds
       \/ Percentile(MeasToArr(pre), 100 - op.args[1]).err = ErrBounds
    /\ Len(tsout.DataSeries) >= 1
    /\ Len(tsrej.DataSeries) >= 1

----------------------------------------------------------------------------
(* Regularize *)

\* the period of the grid, in milliseconds
PeriodOf(freq, per) == AddDuration(0, freq, NormalizePer(per))

\* the positions of the points of ds with E - period < timestamp <= E
BucketAt(ds, E, period) == {i \in DOMAIN ds : E - period < ds[i].Chron /\ ds[i].Chron <= E}

\* the values at the positions, in the order of ds
RECURSIVE ValuesAt(_, _, _)
ValuesAt(ds, k, positions) ==
    IF k > Len(ds) THEN <<>>
    ELSE (IF k \in positions THEN <<ds[k].Meas>> ELSE <<>>) \o ValuesAt(ds, k + 1, positions)

AggregateMeths == {"avg", "max", "min", "last", "sum"}

\* v is the aggregate of the points of the bucket: the mean, an extremum (a
\* value of the bucket that no value of the bucket exceeds), the value of a
\* latest point, the sum
IsAggregateOf(v, meth, ds, bucket) ==
    LET values == ValuesAt(ds, 1, bucket)
        total == SumLoop(values, F(0))
    IN  CASE meth = "avg" -> v = FDiv(total, F(Len(values)))
          [] meth = "sum" -> v = total
          [] meth = "max" ->
                \E i \in bucket : ds[i].Meas = v /\ \A j \in bucket : ~FGreater(ds[j].Meas, v)
          [] meth = "min" ->
                \E i \in bucket : ds[i].Meas = v /\ \A j \in bucket : ~FLess(ds[j].Meas, v)
          [] meth = "last" ->
                \E i \in bucket : ds[i].Meas = v /\ \A j \in bucket : ds[j].Chron <= ds[i].Chron

\* C10: Regularize with tolerance 0 assigns every input point to the bucket
\* ending at the smallest grid instant not earlier than its timestamp: every
\* emitted record is stamped with a grid instant E; it is the not-a-number
\* sentinel when no input point has E - period < timestamp <= E, and
\* otherwise its value is the chosen aggregate (mean, max, min, last, sum)
\* over exactly those points; every bucket holding at least one point yields
\* exactly one record.
C10_BucketAggregates ==
    (/\ HasReturned("Regularize")
     /\ op.args[1] > 0
     /\ op.args[4] = 0
     /\ op.args[3] \in AggregateMeths) =>
        LET period == PeriodOf(op.args[1], op.args[2])
            ds == pre.DataSeries
            out == tsout.DataSeries
        IN  /\ \A j \in DOMAIN out :
                   LET E == out[j].Chron
                       bucket == BucketAt(ds, E, period)
                   IN  /\ E % period = 0
                       /\ IF bucket = {} THEN IsNaN(out[j].Meas)
                          ELSE IsAggregateOf(out[j].Meas, op.args[3], ds, bucket)
            /\ \A i \in DOMAIN ds :
                   Cardinality({j \in DOMAIN out :
                                   out[j].Chron = BucketEnd(ds[i].Chron, period)}) = 1

\* a call with tolerance 0 that aggregates two points of different values in
\* one bucket, with an empty bucket before the next point
C10_Witness ==
    /\ HasReturned("Regularize")
    /\ op.args[1] > 0
    /\ op.args[4] = 0
    /\ op.args[3] = "avg"
    /\ Len(tsout.DataSeries) >= 3
    /\ \E j \in DOMAIN tsout.DataSeries :
           LET bucket == BucketAt(pre.DataSeries, tsout.DataSeries[j].Chron,
                                  PeriodOf(op.args[1], op.args[2]))
           IN  /\ ~IsNaN(tsout.DataSeries[j].Meas)
               /\ \E a, b \in bucket : pre.DataSeries[a].Meas # pre.DataSeries[b].Meas
    /\ \E j \in DOMAIN tsout.DataSeries :
           BucketAt(pre.DataSeries, tsout.DataSeries[j].Chron,
                    PeriodOf(op.args[1], op.args[2])) = {}

StrictlyIncreasing(s) == \A i \in 1..(Len(s) - 1) : s[i].Chron < s[i + 1].Chron

\* the tolerance in milliseconds
ToleranceOf(per, tolerance) == AddDurationTol(0, 0, NormalizePer(per), tolerance)

\* C11: Regularize output is strictly regular: for every chronologically
\* sorted input with strictly increasing timestamps, every period > 0 and
\* every tolerance >= 0, any two consecutive emitted records (real or
\* sentinel) have timestamps that differ by exactly one period.
C11_StrictlyRegular ==
    (/\ HasReturned("Regularize")
     /\ op.args[1] > 0
     /\ op.args[4] >= 0
     /\ StrictlyIncreasing(pre.DataSeries)) =>
        \A j \in 1..(Len(tsout.DataSeries) - 1) :
            tsout.DataSeries[j + 1].Chron - tsout.DataSeries[j].Chron
                = PeriodOf(op.args[1], op.args[2])

\* two consecutive emitted records two periods apart
C11_SkippedInstant ==
    /\ HasReturned("Regularize")
    /\ op.args[1] > 0
    /\ StrictlyIncreasing(pre.DataSeries)
    /\ \E j \in 1..(Len(tsout.DataSeries) - 1) :
           tsout.DataSeries[j + 1].Chron - tsout.DataSeries[j].Chron
               = 2 * PeriodOf(op.args[1], op.args[2])

\* the position after the points, from position i + 1 on, whose timestamp does
\* not exceed the bound
RECURSIVE TolerantTake(_, _, _)
TolerantTake(ds, i, bound) ==
    IF i < Len(ds) /\ ds[i + 1].Chron <= bound THEN TolerantTake(ds, i + 1, bound) ELSE i

\* the buckets skipped before the one whose tolerant upper bound reaches chron
RECURSIVE TolerantGaps(_, _, _, _)
TolerantGaps(chron, next, period, tol) ==
    IF chron <= next + tol THEN [end |-> next, recs |-> <<>>]
    ELSE LET g == TolerantGaps(chron, next + period, period, tol)
         IN  [end |-> g.end, recs |-> <<[Chron |-> next, points |-> {}]>> \o g.recs]

\* the records of the walk that collects, at each bucket, every point not yet
\* consumed up to bucket end + tolerance: the stamp of each record and the
\* positions of the points it aggregates (none for a sentinel)
RECURSIVE TolerantWalk(_, _, _, _, _)
TolerantWalk(ds, i, end, period, tol) ==
    LET k == TolerantTake(ds, i, end + tol)
        rec == IF k > i THEN <<[Chron |-> end, points |-> (i + 1)..k]>> ELSE <<>>
    IN  IF k >= Len(ds) THEN rec
        ELSE LET g == TolerantGaps(ds[k + 1].Chron, end + period, period, tol)
             IN  rec \o g.recs \o TolerantWalk(ds, k, g.end, period, tol)

GridFromTo(first, last, period) == {first + k * period : k \in 0..((last - first) \div period)}

\* C13 as stated: with tolerance 0, for every sorted non-empty input, a record
\* whose value is not-a-number is emitted at grid instant E if and only if E
\* lies strictly between the first and last emitted timestamps and no input
\* point has E - period < timestamp <= E; exactly one per such bucket; the
\* first and the last emitted records are not not-a-number.
C13_NaNOnlyInGaps ==
    (/\ HasReturned("Regularize")
     /\ op.args[1] > 0
     /\ op.args[4] = 0
     /\ IsChronSorted(pre.DataSeries)
     /\ pre.DataSeries # <<>>) =>
        LET ds == pre.DataSeries
            out == tsout.DataSeries
            period == PeriodOf(op.args[1], op.args[2])
            first == out[1].Chron
            last == out[Len(out)].Chron
        IN  /\ out # <<>>
            /\ \A E \in GridFromTo(first, last, period) \cup {out[j].Chron : j \in DOMAIN out} :
                   LET sentinels == {j \in DOMAIN out : out[j].Chron = E /\ IsNaN(out[j].Meas)}
                       gap == first < E /\ E < last /\ BucketAt(ds, E, period) = {}
                   IN  /\ sentinels # {} <=> gap
                       /\ Cardinality(sentinels) <= 1
            /\ ~IsNaN(out[1].Meas)
            /\ ~IsNaN(out[Len(out)].Meas)

\* C13: with tolerance 0 and a period > 0, for every non-empty input, exactly
\* one record is emitted at every grid instant from the bucket end of the
\* earliest point to the bucket end of the latest point, in ascending order,
\* and none elsewhere; the record of a bucket without input point is the
\* not-a-number sentinel; the record of a bucket whose points all have numeric
\* values is numeric (a bucket holding a not-a-number value may yield a
\* not-a-number record that is no sentinel); the first and the last emitted
\* records belong to buckets that hold a point.
C13_SentinelsFillGaps ==
    (/\ HasReturned("Regularize")
     /\ op.args[1] > 0
     /\ op.args[4] = 0
     /\ pre.DataSeries # <<>>) =>
        LET ds == pre.DataSeries
            out == tsout.DataSeries
            period == PeriodOf(op.args[1], op.args[2])
            ends == {BucketEnd(ds[i].Chron, period) : i \in DOMAIN ds}
            lo == CHOOSE e \in ends : \A f \in ends : e <= f
            hi == CHOOSE e \in ends : \A f \in ends : f <= e
        IN  /\ Len(out) = (hi - lo) \div period + 1
            /\ \A j \in DOMAIN out :
                   /\ out[j].Chron = lo + (j - 1) * period
                   /\ BucketAt(ds, out[j].Chron, period) = {} => IsNaN(out[j].Meas)
                   /\ (/\ BucketAt(ds, out[j].Chron, period) # {}
                       /\ \A i \in BucketAt(ds, out[j].Chron, period) : ~IsNaN(ds[i].Meas))
                          => ~IsNaN(out[j].Meas)
            /\ BucketAt(ds, out[1].Chron, period) # {}
            /\ BucketAt(ds, out[Len(out)].Chron, period) # {}

\* two sentinels in a row between two numeric records
C13_Witness ==
    /\ HasReturned("Regularize")
    /\ op.args[1] > 0
    /\ op.args[4] = 0
    /\ \E j \in 1..(Len(tsout.DataSeries) - 3) :
           /\ ~IsNaN(tsout.DataSeries[j].Meas)
           /\ IsNaN(tsout.DataSeries[j + 1].Meas)
           /\ IsNaN(tsout.DataSeries[j + 2].Meas)
           /\ ~IsNaN(tsout.DataSeries[j + 3].Meas)
           /\ BucketAt(pre.DataSeries, tsout.DataSeries[j + 1].Chron,
                       PeriodOf(op.args[1], op.args[2])) = {}

\* the tokens the switch on meth recognises
RecognisedMeths ==
    {"Average", "average", "avg", "Maximum", "maximum", "max",
     "Minimum", "minimum", "min", "Last", "last", "Sum", "sum"}

\* C14: Regularize called with an aggregation mode that is not a recognised
\* token fails fast before any data is processed: it emits no output record
\* and does not reorder the receiver.
C14_UnknownModeFailsFast ==
    (op.name = "Regularize" /\ op.args[3] \notin RecognisedMeths) =>
        /\ tsout.DataSeries = <<>>
        /\ ts.DataSeries = pre.DataSeries

\* a record carrying the placeholder of the default branch
C14_PlaceholderEmitted ==
    /\ HasReturned("Regularize")
    /\ op.args[3] \notin RecognisedMeths
    /\ \E j \in DOMAIN tsout.DataSeries : tsout.DataSeries[j].Meas = UnknownMethodMeas

\* C15: Regularize called with a period <= 0 reports the zero-period error
\* instead of starting the bucket walk: the call does not return a series as
\* a normal result, does not run the walk, and emits no record.
C15_NonPositivePeriodRejected ==
    (op.name = "Regularize" /\ op.args[1] <= 0) =>
        /\ outcome \notin {"returned", "hang"}
        /\ tsout.DataSeries = <<>>

\* the walk was started with a period <= 0 and never ends
C15_WalkWithoutEnd ==
    /\ op.name = "Regularize"
    /\ op.args[1] <= 0
    /\ outcome = "hang"

\* the statuses of the observations that take part in the aggregation
ValidStatus == {StOK, StOutlier}

\* C16: Regularize aggregates valid observations only: records whose status is
\* Missing or Invalid contribute neither to the value of an emitted record nor
\* to deciding whether a bucket is empty.
C16_ValidObservationsOnly ==
    (/\ HasReturned("Regularize")
     /\ op.args[1] > 0
     /\ op.args[4] = 0
     /\ op.args[3] \in AggregateMeths) =>
        LET ds == pre.DataSeries
            out == tsout.DataSeries
            period == PeriodOf(op.args[1], op.args[2])
        IN  \A j \in DOMAIN out :
                LET valid == {i \in BucketAt(ds, out[j].Chron, period) :
                                 ds[i].Status \in ValidStatus}
                IN  IF valid = {} THEN IsNaN(out[j].Meas)
                    ELSE IsAggregateOf(out[j].Meas, op.args[3], ds, valid)

\* a numeric record for a bucket that holds records of status Missing only
C16_MissingAggregated ==
    /\ HasReturned("Regularize")
    /\ op.args[1] > 0
    /\ \E j \in DOMAIN tsout.DataSeries :
           /\ ~IsNaN(tsout.DataSeries[j].Meas)
           /\ \A i \in BucketAt(pre.DataSeries, tsout.DataSeries[j].Chron,
                                PeriodOf(op.args[1], op.args[2])) :
                  pre.DataSeries[i].Status = StMissing

----------------------------------------------------------------------------
(* The statistical primitives *)

StatOps == {"Sum", "Mean", "Median", "Min", "Max", "StdDev", "Percentile"}

\* a stands before b in ascending order, not-a-number before every number
Precedes(a, b) == (IsNaN(a) /\ ~IsNaN(b)) \/ FLess(a, b)

Ascending(s) == \A i \in 1..(Len(s) - 1) : ~Precedes(s[i + 1], s[i])

\* v is the element at place j, counted from 1, of the ascending order of s
AtPlace(s, v, j) ==
    /\ \E i \in DOMAIN s : s[i] = v
    /\ Cardinality({i \in DOMAIN s : Precedes(s[i], v)}) < j
    /\ j <= Cardinality({i \in DOMAIN s : ~Precedes(v, s[i])})

\* v is the middle element of the ascending order of s, or the mean of the
\* two central ones
IsMedianOf(s, v) ==
    LET n == Len(s)
    IN  IF n % 2 = 1 THEN AtPlace(s, v, (n + 1) \div 2)
        ELSE \E i, j \in DOMAIN s :
                 /\ AtPlace(s, s[i], n \div 2)
                 /\ AtPlace(s, s[j], n \div 2 + 1)
                 /\ v = FDiv(FAdd(s[i], s[j]), F(2))

\* C17: each of Sum, Mean, Median, Min, Max, StdDev and Percentile called on
\* a slice of length zero fails with ErrEmptyInput and returns no number.
C17_EmptyInputError ==
    (op.name \in StatOps /\ op.args[1] = <<>>) =>
        /\ res.err = ErrEmptyInput
        /\ IsNaN(res.val)

\* StdDev on the empty slice returned another error
C17_AnotherError ==
    /\ HasReturned("StdDev")
    /\ op.args[1] = <<>>
    /\ res.err = ErrEmptySlice

----------------------------------------------------------------------------
(* RemoveElements *)

\* the positions of ds, counted from 0, that idx lists
ListedIn(ds, idx) == {i \in 0..(Len(ds) - 1) : \E k \in DOMAIN idx : idx[k] = i}

\* C20: RemoveElements(idx...) returns as rejected series the records at the
\* positions of [0, len-1] that idx lists, each once, and as kept series all
\* other records, both in the order of the input; positions outside
\* [0, len-1] are ignored; len(kept) + len(rejected) = len(input).
C20_IndexPartition ==
    HasReturned("RemoveElements") =>
        LET ds == pre.DataSeries
            listed == ListedIn(ds, op.args[1])
        IN  /\ tsrej.DataSeries = PickFrom(ds, 1, listed)
            /\ tsout.DataSeries = PickFrom(ds, 1, (0..(Len(ds) - 1)) \ listed)
            /\ Len(tsout.DataSeries) + Len(tsrej.DataSeries) = Len(ds)
            /\ ts = pre

\* a position listed twice and a position outside the series in one call
C20_Witness ==
    /\ HasReturned("RemoveElements")
    /\ Len(pre.DataSeries) = 3
    /\ \E j, k, l \in DOMAIN op.args[1] :
           /\ j # k
           /\ op.args[1][j] = op.args[1][k]
           /\ op.args[1][j] = 1
           /\ op.args[1][l] \notin 0..2
    /\ tsrej.DataSeries = <<pre.DataSeries[2]>>
    /\ tsout.DataSeries = <<pre.DataSeries[1], pre.DataSeries[3]>>
    /\ pre.DataSeries[1] # pre.DataSeries[3]

----------------------------------------------------------------------------
(* RemovedNonValid *)

\* the positions of ds, counted from 0, whose record has status OK
ValidPositions(ds) == {i \in 0..(Len(ds) - 1) : ds[i + 1].Status = StOK}

\* C21: RemovedNonValid sends every record with status OK to the kept series
\* and every record with another status (Missing, Outlier, Invalid) to the
\* rejected series, each record once and in the order of the input.
C21_StatusPartition ==
    HasReturned("RemovedNonValid") =>
        LET ds == pre.DataSeries
        IN  /\ tsout.DataSeries = PickFrom(ds, 1, ValidPositions(ds))
            /\ tsrej.DataSeries = PickFrom(ds, 1, (0..(Len(ds) - 1)) \ ValidPositions(ds))
            /\ Len(tsout.DataSeries) + Len(tsrej.DataSeries) = Len(ds)

\* records of two other statuses rejected around a kept record
C21_Witness ==
    /\ HasReturned("RemovedNonValid")
    /\ Len(tsout.DataSeries) >= 1
    /\ {tsrej.DataSeries[i].Status : i \in DOMAIN tsrej.DataSeries}
           \in {{StMissing, StOutlier}, {StOutlier, StInvalid}, {StMissing, StInvalid}}
    /\ pre.DataSeries[2].Status = StOK

----------------------------------------------------------------------------
(* The free sorting functions *)

\* C30: SortMeasAsc(s, name) and SortMeasDesc(s, name) return a series named
\* name that holds the records of s ordered by measurement value, ascending
\* respectively descending, in an order SortedMeasAsc(s) / SortedMeasDesc(s)
\* and the in-place methods can produce, and leave s unchanged.
C30_SortedByMeasurement ==
    /\ HasReturned("SortMeasAsc") =>
           /\ tsout.Name = op.args[1]
           /\ tsout.DataSeries \in SortMeasAsc(pre.DataSeries)
           /\ ts = pre
    /\ HasReturned("SortMeasDesc") =>
           /\ tsout.Name = op.args[1]
           /\ tsout.DataSeries \in SortMeasDesc(pre.DataSeries)
           /\ ts = pre

\* SortMeasAsc(s, name) returned a larger value before a smaller one
C30_OrderedByTime ==
    /\ HasReturned("SortMeasAsc")
    /\ \E i \in 1..(Len(tsout.DataSeries) - 1) :
           FLess(tsout.DataSeries[i + 1].Meas, tsout.DataSeries[i].Meas)

----------------------------------------------------------------------------
(* The summary statistics *)

StatsOps == {"Sort_Deltas_Stats", "ComputeBasicStats"}

\* C24: after one or more calls of Sort_Deltas_Stats / ComputeBasicStats on a
\* series, NbreOfNaN is the number of records whose value is not-a-number and
\* Len is the number of records.
C24_RecomputedStatistics ==
    (op.name \in StatsOps /\ outcome = "returned" /\ ts.DataSeries # <<>>) =>
        /\ ts.BasicStats.Len = Len(ts.DataSeries)
        /\ ts.BasicStats.NbreOfNaN
               = Cardinality({i \in DOMAIN ts.DataSeries : IsNaN(ts.DataSeries[i].Meas)})

\* a second computation on unchanged records moved NbreOfNaN
C24_CountedTwice ==
    /\ HasReturned("ComputeBasicStats")
    /\ ts.DataSeries = pre.DataSeries
    /\ pre.BasicStats.Len = Len(pre.DataSeries)
    /\ pre.BasicStats.NbreOfNaN = 1
    /\ ts.BasicStats.NbreOfNaN = 2

\* the measurements of the records with status OK that are numbers
ValidMeasVec(ds) == MeasVec(PickFrom(ds, 1, ValidPositions(ds)))

\* C25: after Sort_Deltas_Stats the statistics of the measurements (Msmin,
\* Msmax, Msmean, Msmed, Msstd) are those of the records with status OK: a
\* record with status Missing, Outlier or Invalid does not influence them.
C25_ValidObservationsOnly ==
    (HasReturned("Sort_Deltas_Stats") /\ ts.DataSeries # <<>>) =>
        LET vec == ValidMeasVec(ts.DataSeries)
        IN  /\ ts.BasicStats.Msmin = Min(vec).val
            /\ ts.BasicStats.Msmax = Max(vec).val
            /\ ts.BasicStats.Msmean = Mean(vec).val
            /\ ts.BasicStats.Msmed = Median(vec).val
            /\ ts.BasicStats.Msstd = StdDev(vec).val

\* the maximum is the value of a record with status Invalid
C25_InvalidCounted ==
    /\ HasReturned("Sort_Deltas_Stats")
    /\ \E i \in DOMAIN ts.DataSeries :
           /\ ts.DataSeries[i].Status = StInvalid
           /\ ts.DataSeries[i].Meas = ts.BasicStats.Msmax
    /\ \A i \in DOMAIN ts.DataSeries :
           ts.DataSeries[i].Status = StOK => FLess(ts.DataSeries[i].Meas, ts.BasicStats.Msmax)
    /\ \E i \in DOMAIN ts.DataSeries : ts.DataSeries[i].Status = StOK

----------------------------------------------------------------------------
(* Peirce and its table *)

\* dev > ratio * s for a deviation dev >= 0, a ratio >= 0 and s the square
\* root of variance
OverThreshold(dev, variance, ratio) ==
    FLess(FMul(FMul(ratio, ratio), variance), FMul(dev, dev))

Entry(row, col) == RtableRows[row + 1][col + 1]

\* C29: within every row of Rtable the defined (non-zero) entries strictly
\* decrease as the suspect count grows, and within every column the defined
\* entries do not decrease as the row index grows.
C29_TableMonotone ==
    HasReturned("Rtable") =>
        LET row == op.args[1]
            col == op.args[2]
        IN  /\ (col + 1 < RtableColCount /\ Entry(row, col) # 0 /\ Entry(row, col + 1) # 0)
                   => Entry(row, col + 1) < Entry(row, col)
            /\ (row + 1 < RtableRowCount /\ Entry(row, col) # 0 /\ Entry(row + 1, col) # 0)
                   => Entry(row, col) <= Entry(row + 1, col)

\* an entry of the last row that is smaller than its right neighbour
C29_RisingEntry ==
    /\ HasReturned("Rtable")
    /\ op.args[1] = RtableRowCount - 1
    /\ op.args[2] + 1 < RtableColCount
    /\ res.val # F(0)
    /\ FLess(res.val, Rtable(op.args[1], op.args[2] + 1))

----------------------------------------------------------------------------
(* The walk of Regularize *)

\* the total of the values of the records of ds at the positions
TotalAt(ds, positions) == SumLoop(PickFrom([i \in DOMAIN ds |-> ds[i].Meas], 1,
                                           {i - 1 : i \in positions}), F(0))

\* every point of the receiver is collected into exactly one emitted record
\* when the walk has stopped
AllCollectedOnce ==
    (HasReturned("Regularize") /\ walk.at = "done") =>
        LET ds == ts.DataSeries
            taken == walk.taken
            numeric == \A i \in DOMAIN ds : ~IsNaN(ds[i].Meas)
        IN  /\ walk.i = Len(ds)
            /\ \A i \in DOMAIN ds :
                   Cardinality({j \in DOMAIN taken : i \in taken[j].points}) = 1
            /\ \A j \in DOMAIN taken :
                   /\ taken[j].points # {}
                   /\ Cardinality({k \in DOMAIN tsout.DataSeries :
                                      tsout.DataSeries[k].Chron = taken[j].Chron}) = 1
            /\ (op.args[3] = "sum" /\ numeric) =>
                   /\ \A j \in DOMAIN taken :
                          \E k \in DOMAIN tsout.DataSeries :
                              /\ tsout.DataSeries[k].Chron = taken[j].Chron
                              /\ tsout.DataSeries[k].Meas = TotalAt(ds, taken[j].points)
                   /\ TotalAt(tsout.DataSeries,
                              {k \in DOMAIN tsout.DataSeries : ~IsNaN(tsout.DataSeries[k].Meas)})
                          = TotalAt(ds, DOMAIN ds)

\* a walk is under way
Walking == outcome = "running"

\* the call of the walk: a series with a point, a period > 0, a unit that is
\* recognised
RecognisedCall ==
    /\ op.name = "Regularize"
    /\ Len(ts.DataSeries) > 0
    /\ op.args[1] > 0
    /\ NormalizePer(op.args[2]) # "fatal"

\* a step of a running walk does not move the pending index back
PendingIndexGrows == Walking => walk'.i >= walk.i

\* C28: for a non-empty series, a period > 0, any tolerance and a recognised
\* unit and mode, the walk of Regularize stops after finitely many window
\* advances, the pending index never decreases, and at the stop every input
\* point has been collected into exactly one emitted record, so that with sum
\* aggregation on numeric values the total of the output values that are
\* numbers equals the total of the input values.
C28_WalkTerminates ==
    /\ [](Walking => RecognisedCall)
    /\ []AllCollectedOnce
    /\ [][PendingIndexGrows]_vars
    /\ Walking ~> HasReturned("Regularize")

\* a walk that has stopped after a sentinel and a late point, with a
\* tolerance that is not zero
C28_Witness ==
    /\ HasReturned("Regularize")
    /\ walk.at = "done"
    /\ op.args[4] # 0
    /\ Len(ts.DataSeries) = 2
    /\ Len(walk.taken) = 2
    /\ \E k \in DOMAIN tsout.DataSeries : IsNaN(tsout.DataSeries[k].Meas)

\* the walk taken step by step returns what Regularize returns
WalkAgrees ==
    (HasReturned("Regularize")) =>
        \E r \in Regularize(pre, op.args[1], op.args[2], op.args[3], op.args[4]) :
            /\ ~r.hang
            /\ r.out = tsout
            /\ r.tsin = ts

----------------------------------------------------------------------------
(* LimitSize *)

\* LimitSize has been called on a and has returned or panicked
LimitSizeCalled ==
    /\ op.name = "LimitSize"
    /\ op.args[1] = "a"
    /\ outcome \in {"returned", "panic"}

\* C26: LimitSize never lengthens a series: on a series of n records,
\* LimitSize(limit) with 0 <= limit <= n leaves exactly the first limit
\* records, with limit > n it panics, and whatever AddData, AddDataUnit,
\* Reset and LimitSize calls came before it never returns with a record
\* that the series did not hold just before the call.
C26_NeverLengthens ==
    LimitSizeCalled =>
        LET n == Len(pre.DataSeries)
            limit == op.args[2]
        IN  /\ (0 <= limit /\ limit <= n) =>
                   /\ outcome = "returned"
                   /\ ts.DataSeries = SubSeq(pre.DataSeries, 1, limit)
            /\ limit > n => outcome = "panic"
            /\ outcome = "returned" =>
                   /\ Len(ts.DataSeries) <= n
                   /\ \A i \in DOMAIN ts.DataSeries :
                          i <= n /\ ts.DataSeries[i] = pre.DataSeries[i]

\* LimitSize has returned, on a series that Reset had emptied, with two
\* records that AddData had added before the Reset
C26_RemovedRecordsBack ==
    /\ LimitSizeCalled
    /\ outcome = "returned"
    /\ Len(pre.DataSeries) = 0
    /\ op.args[2] = 2
    /\ Len(ts.DataSeries) = 2
    /\ \A i \in DOMAIN ts.DataSeries : ts.DataSeries[i] \in AddedUnits \ {ZeroUnit}

----------------------------------------------------------------------------
(* Merge *)

\* the records of the series the caller holds in slot s
Records(s) == View(heap, refs[s])

----------------------------------------------------------------------------
(* Derived series and their sources *)

\* what a caller does to a series it holds: a record written, an append, a
\* sort, Reset, a truncation
MutatingOps == {"SetMeas", "AddData", "SortChronAsc", "SortMeasAsc", "Reset", "LimitSize"}

\* the caller has done it to the series in slot s, after a call has returned
\* its series
Mutated(s) ==
    /\ op.name \in MutatingOps
    /\ op.args[1] = s
    /\ outcome \in {"returned", "panic"}

\* the step in which the caller does it
MutatingStep == JustDerived /\ op'.name \in MutatingOps

\* the timestamps do not decrease along ds
ChronAscending(ds) == \A i \in 1..(Len(ds) - 1) : ds[i].Chron <= ds[i + 1].Chron

\* C23: the series returned by Copy, Merge, RemovedNonValid, RemoveElements,
\* the four cleaning operations and Regularize share no storage with their
\* sources: a record written, an append, a sort, Reset or a truncation of
\* a source afterwards leaves the returned series as they were returned,
\* the same on a returned series leaves the sources and the other returned
\* series as they were; and Copy leaves the receiver's records and their
\* order as they were and returns a series in ascending chronological order.
C23_NoSharedStorage ==
    /\ [](\A s \in Slots :
            Mutated(s) =>
                /\ s # "r1" => Records("r1") = tsout.DataSeries
                /\ s # "r2" => Records("r2") = tsrej.DataSeries
                /\ s # "a" => Records("a") = pre.DataSeries)
    /\ [][MutatingStep =>
            \A o \in Slots \ {op'.args[1]} : Records(o)' = Records(o)]_vars
    /\ [](HasReturned("Copy") =>
            /\ ts = pre
            /\ Records("a") = pre.DataSeries
            /\ Records("r1") = tsout.DataSeries
            /\ Len(tsout.DataSeries) = Len(pre.DataSeries)
            /\ ChronAscending(tsout.DataSeries))

\* a record of the source has been written after Copy has returned the
\* records of the source in another order
C23_Witness ==
    /\ Mutated("a")
    /\ op.name = "SetMeas"
    /\ Len(tsout.DataSeries) = MaxLenH
    /\ tsout.BasicStats.Len = MaxLenH
    /\ ~ChronAscending(pre.DataSeries)
    /\ Records("a") # pre.DataSeries
    /\ Records("r1") = tsout.DataSeries

\* a record of a returned series has been written after a call has returned
\* two series
ReturnedSeriesWritten ==
    /\ Mutated("r1")
    /\ op.name = "SetMeas"
    /\ Records("r1") # tsout.DataSeries
    /\ Len(tsrej.DataSeries) > 0

====
